---------------------------- MODULE Spec2Model ----------------------------
(***************************************************************************)
(* Hard Hat AI backend: upload handling, the Model Gateway with its retry  *)
(* loop, the per-endpoint Stream Relay (Server-Sent Events) and the        *)
(* Response Parsers that recover JSON from the model's reply.              *)
(*                                                                         *)
(* A reply text is a sequence of tokens.  The tokens are the pieces of     *)
(* text the parsers' regular expressions and brace counters can tell       *)
(* apart:                                                                  *)
(*    "{" "}" "[" "]"   the structural characters                          *)
(*    "k"               a JSON key with its colon, other than the anchor   *)
(*    "A"               the task's anchor key ("risks",                    *)
(*                      "compliance_items") with its colon                 *)
(*    "n"               a JSON scalar                                      *)
(*    "F"               a code fence ``` (with or without the json label)  *)
(*    "p"               one character of prose                             *)
(*    "P"               a long run of prose (LongProse characters)         *)
(* White space and commas are elided.                                      *)
(***************************************************************************)
EXTENDS Integers, Sequences, FiniteSets, TLC

\* ------------------------------------------------------------------ bounds
MaxLen == 4          \* longest free-form reply text handed to the parsers
LongProse == 600     \* characters in one "P" token
MaxImages == 2       \* uploads of one schedule request
MaxFrags == 2        \* fragments the upstream delivers in one gateway call
MaxItems == 2        \* items in the list of a parsed reply
MaxConfLen == 3      \* pieces of a reply text handed to the estimator
BlankRun == 20       \* blanks in one "W" piece
TextRun == 100       \* characters in one "C" piece
MaxNameParts == 2    \* parts of an uploaded file's name

\* ------------------------------------------------------- program constants
max_retries == 3
base_delay == 1
DelayCap == 60
SummaryChars == 500
RawPreviewChars == 1000
MinConfChars == 10
MAX_SIZE == 26214400
MAX_PAGES == 100
ImageMaxSize == 10485760
MAX_IMAGE_SIZE_BYTES == 3750000
B64Ceiling == 5242880
HighConfChars == 100

JsonTokens == {"{", "}", "[", "]", "k", "A", "n"}
Tokens == JsonTokens \cup {"F", "p", "P"}

Min(a, b) == IF a < b THEN a ELSE b

Width(t) == IF t = "P" THEN LongProse ELSE 1

RECURSIVE CharLen(_)
CharLen(s) == IF s = <<>> THEN 0 ELSE Width(Head(s)) + CharLen(Tail(s))

\* Python's text[:n] on a token text: whole tokens while they fit, then the
\* part of the next token that fits.
RECURSIVE Take(_, _)
Take(s, n) ==
    IF s = <<>> \/ n <= 0 THEN <<>>
    ELSE LET w == Width(Head(s)) IN
         IF w <= n THEN <<[tok |-> Head(s), w |-> w]>> \o Take(Tail(s), n - w)
         ELSE <<[tok |-> Head(s), w |-> n]>>

\* ---------------------------------------------------------------- json.loads
\* Recursive descent over the tokens; each returns the index after the value
\* it read, or 0 when the text is not JSON there.
RECURSIVE ValueEnd(_, _), MembersEnd(_, _), ElemsEnd(_, _)
ValueEnd(s, i) ==
    IF i > Len(s) THEN 0
    ELSE CASE s[i] = "n" -> i + 1
           [] s[i] = "{" -> MembersEnd(s, i + 1)
           [] s[i] = "[" -> ElemsEnd(s, i + 1)
           [] OTHER -> 0

MembersEnd(s, i) ==
    IF i > Len(s) THEN 0
    ELSE IF s[i] = "}" THEN i + 1
    ELSE IF s[i] \in {"k", "A", "L"}
         THEN LET j == ValueEnd(s, i + 1) IN IF j = 0 THEN 0 ELSE MembersEnd(s, j)
         ELSE 0

ElemsEnd(s, i) ==
    IF i > Len(s) THEN 0
    ELSE IF s[i] = "]" THEN i + 1
    ELSE LET j == ValueEnd(s, i) IN IF j = 0 THEN 0 ELSE ElemsEnd(s, j)

\* json.loads(s) succeeds exactly when s is one JSON value and nothing else.
json_loads_ok(s) == Len(s) > 0 /\ ValueEnd(s, 1) = Len(s) + 1

IsDict(d) == Len(d) > 0 /\ d[1] = "{"
IsList(d) == Len(d) > 0 /\ d[1] = "["

\* The members of a parsed object and the elements of a parsed list.
RECURSIVE Members(_, _)
Members(d, i) ==
    IF d[i] = "}" THEN <<>>
    ELSE LET j == ValueEnd(d, i + 1) IN
         <<[key |-> d[i], val |-> SubSeq(d, i + 1, j - 1)]>> \o Members(d, j)

RECURSIVE Elements(_, _)
Elements(d, i) ==
    IF d[i] = "]" THEN <<>>
    ELSE LET j == ValueEnd(d, i) IN <<SubSeq(d, i, j - 1)>> \o Elements(d, j)

HasKey(d, key) == \E m \in 1..Len(Members(d, 2)) : Members(d, 2)[m].key = key

\* d[key]: with a repeated key json.loads keeps the last value.
DictGet(d, key) ==
    LET ms == Members(d, 2)
        hit == {m \in 1..Len(ms) : ms[m].key = key}
    IN ms[CHOOSE m \in hit : \A o \in hit : o <= m].val

\* ---------------------------------------------------------- text searching
\* str.find: the first index >= from holding t, 0 when there is none.
FirstIdx(s, t, from) ==
    LET hit == {i \in from..Len(s) : s[i] = t}
    IN IF hit = {} THEN 0 ELSE CHOOSE i \in hit : \A o \in hit : i <= o

\* str.rfind(t, 0, before): the last index < before holding t, 0 when none.
LastIdxBefore(s, t, before) ==
    LET hit == {i \in 1..(before - 1) : i <= Len(s) /\ s[i] = t}
    IN IF hit = {} THEN 0 ELSE CHOOSE i \in hit : \A o \in hit : o <= i

LastIdx(s, t) == LastIdxBefore(s, t, Len(s) + 1)

\* ------------------------------------------------- candidate text selection
\* re.search(r'```(?:json)?\s*(\{.*?\})\s*```', text, re.DOTALL), group 1: the
\* leftmost fence directly followed by "{", up to the first "}" that is
\* directly followed by a fence.  <<>> when there is no match.
FencedMatch(s) ==
    LET Closers(i) == {j \in (i + 2)..(Len(s) - 1) : s[j] = "}" /\ s[j + 1] = "F"}
        starts == {i \in 1..(Len(s) - 1) :
                     s[i] = "F" /\ s[i + 1] = "{" /\ Closers(i) # {}}
    IN IF starts = {} THEN <<>>
       ELSE LET i == CHOOSE x \in starts : \A o \in starts : x <= o
                j == CHOOSE x \in Closers(i) : \A o \in Closers(i) : x <= o
            IN SubSeq(s, i + 1, j)

\* re.search(r'\{.*"risks".*\}', text, re.DOTALL), group 0: greedy, from the
\* first "{" to the last "}" of the text, when the anchor lies between.
RiskAnchorMatch(s) ==
    LET i == FirstIdx(s, "{", 1)
        a == IF i = 0 THEN 0 ELSE FirstIdx(s, "A", i + 1)
        b == IF a = 0 THEN 0 ELSE FirstIdx(s, "}", a + 1)
    IN IF b = 0 THEN <<>> ELSE SubSeq(s, i, LastIdx(s, "}"))

\* re.search(r'(\{.*?"compliance_items".*?\})', text, re.DOTALL), group 1:
\* non-greedy, from the first "{" to the first "}" after the first anchor.
ComplianceAnchorMatch(s) ==
    LET i == FirstIdx(s, "{", 1)
        a == IF i = 0 THEN 0 ELSE FirstIdx(s, "A", i + 1)
        b == IF a = 0 THEN 0 ELSE FirstIdx(s, "}", a + 1)
    IN IF b = 0 THEN <<>> ELSE SubSeq(s, i, b)

\* The brace counting loop: the index of the "}" that brings the count back
\* to zero, 0 when the text ends first.
RECURSIVE BraceScan(_, _, _)
BraceScan(s, i, brace_count) ==
    IF i > Len(s) THEN 0
    ELSE IF s[i] = "{" THEN BraceScan(s, i + 1, brace_count + 1)
    ELSE IF s[i] = "}"
         THEN IF brace_count - 1 = 0 THEN i ELSE BraceScan(s, i + 1, brace_count - 1)
         ELSE BraceScan(s, i + 1, brace_count)

\* response_text[brace_start:brace_end], or response_text[brace_start:] when
\* no matching brace was found.
BraceSlice(s, brace_start) ==
    LET e == BraceScan(s, brace_start, 0)
    IN IF e # 0 THEN SubSeq(s, brace_start, e) ELSE SubSeq(s, brace_start, Len(s))

risk_json_str(s) ==
    IF FencedMatch(s) # <<>> THEN FencedMatch(s)
    ELSE IF RiskAnchorMatch(s) # <<>> THEN RiskAnchorMatch(s)
    ELSE s

compliance_json_str(s) ==
    IF FencedMatch(s) # <<>> THEN FencedMatch(s)
    ELSE IF ComplianceAnchorMatch(s) # <<>> THEN ComplianceAnchorMatch(s)
    ELSE LET brace_start == FirstIdx(s, "{", 1) IN
         IF brace_start = 0 THEN s
         ELSE IF BraceScan(s, brace_start, 0) # 0
              THEN SubSeq(s, brace_start, BraceScan(s, brace_start, 0))
              ELSE LET compliance_idx == FirstIdx(s, "A", 1) IN
                   IF compliance_idx = 0 THEN s
                   ELSE LET before == LastIdxBefore(s, "{", compliance_idx) IN
                        IF before = 0 THEN s ELSE BraceSlice(s, before)

schedule_json_str(s) ==
    IF FencedMatch(s) # <<>> THEN FencedMatch(s)
    ELSE LET brace_start == FirstIdx(s, "{", 1) IN
         IF brace_start = 0 THEN s ELSE BraceSlice(s, brace_start)

\* ------------------------------------------------------- Response Parsers
\* An item of the anchor list is kept when it is an object that has the
\* required keys ("k" stands for them).
IsItem(e) == IsDict(e) /\ HasKey(e, "k")

\* if "<anchor>" in data and isinstance(data["<anchor>"], list): for item ...
ParsedItems(data) ==
    IF HasKey(data, "A") /\ IsList(DictGet(data, "A"))
    THEN SelectSeq(Elements(DictGet(data, "A"), 2), IsItem)
    ELSE <<>>

\* The try block of a parser: which exception ends it, if any.  json.loads
\* raises JSONDecodeError; a value that is not an object makes the
\* membership test or data.get raise TypeError or AttributeError.
TryStructured(json_str) ==
    IF ~json_loads_ok(json_str) THEN "JSONDecodeError"
    ELSE IF ~IsDict(json_str) THEN "Exception"
    ELSE "none"

NoSummary == [kind |-> "none", text |-> <<>>]

\* Structured without the parsers' generic "except Exception" clause: what is
\* not a JSONDecodeError escapes the parser.
Structured_NoGenericExcept(exc, json_str, response_text) ==
    CASE exc = "none" ->
           [success |-> TRUE, items |-> ParsedItems(json_str),
            summary |-> [kind |-> "analysis", text |-> <<>>],
            has_raw |-> FALSE, raw |-> <<>>, data |-> <<>>, raised |-> FALSE]
      [] exc = "JSONDecodeError" ->
           [success |-> FALSE, items |-> <<>>,
            summary |-> [kind |-> "unable_to_parse",
                         text |-> Take(response_text, SummaryChars)],
            has_raw |-> TRUE, raw |-> response_text, data |-> <<>>,
            raised |-> FALSE]
      [] OTHER ->
           [success |-> FALSE, items |-> <<>>, summary |-> NoSummary,
            has_raw |-> FALSE, raw |-> <<>>, data |-> <<>>, raised |-> TRUE]

\* The result of a parser: success, the item list, the summary (which of
\* the code's strings it is, with the reply text it quotes), the raw reply
\* when the result carries one, the parsed data, and whether the call
\* raised instead of returning.
Structured(exc, json_str, response_text) ==
    CASE exc = "none" ->
           [success |-> TRUE, items |-> ParsedItems(json_str),
            summary |-> [kind |-> "analysis", text |-> <<>>],
            has_raw |-> FALSE, raw |-> <<>>, data |-> <<>>, raised |-> FALSE]
      [] exc = "JSONDecodeError" ->
           [success |-> FALSE, items |-> <<>>,
            summary |-> [kind |-> "unable_to_parse",
                         text |-> Take(response_text, SummaryChars)],
            has_raw |-> TRUE, raw |-> response_text, data |-> <<>>,
            raised |-> FALSE]
      [] OTHER ->
           [success |-> FALSE, items |-> <<>>,
            summary |-> [kind |-> "error_parsing", text |-> <<>>],
            has_raw |-> TRUE, raw |-> response_text, data |-> <<>>,
            raised |-> FALSE]

parse_risk_analysis_response(response_text) ==
    Structured(TryStructured(risk_json_str(response_text)),
               risk_json_str(response_text), response_text)

parse_compliance_response(response_text) ==
    Structured(TryStructured(compliance_json_str(response_text)),
               compliance_json_str(response_text), response_text)

\* The schedule parser returns whatever json.loads returns, object or not.
parse_schedule_response(response_text) ==
    LET json_str == schedule_json_str(response_text) IN
    IF json_loads_ok(json_str)
    THEN [success |-> TRUE, items |-> <<>>, summary |-> NoSummary,
          has_raw |-> FALSE, raw |-> <<>>, data |-> json_str, raised |-> FALSE]
    ELSE [success |-> FALSE, items |-> <<>>,
          summary |-> [kind |-> "json_parsing_error", text |-> <<>>],
          has_raw |-> TRUE, raw |-> Take(response_text, RawPreviewChars),
          data |-> <<>>, raised |-> FALSE]

Parsers == {"risk", "compliance", "schedule"}

RunParser(which, response_text) ==
    CASE which = "risk" -> parse_risk_analysis_response(response_text)
      [] which = "compliance" -> parse_compliance_response(response_text)
      [] OTHER -> parse_schedule_response(response_text)

\* ------------------------------------------------------------------ state
VARIABLES
    \* one request and its handler
    endpoint,        \* which endpoint the request is for
    pc,              \* where the handler or its stream generator stands
    nfiles,          \* how many files the request uploads
    vidx,            \* the upload the handler works on next (1-based)
    status,          \* HTTP status answered: 0 none yet, 200 stream opened
    rejected_by,     \* which check ended the request synchronously
    disk,            \* temporary files of the request that exist on disk
    created,         \* temporary files the request ever created
    validated,       \* uploads that passed validate_uploaded_file
    \* the stream generator
    events,          \* the events delivered to the caller, in order
    full_response,   \* the accumulated reply text
    parse_count,     \* runs of the Response Parser
    conf_count,      \* runs of the Confidence Estimator
    parsed,          \* what the parser returned (NoResult before it ran)
    closed,          \* the caller closed the stream at a yield
    progress,        \* contract risk: the progress task, its queue, the flag
    \* the Model Gateway call
    gw,
    \* the parsers on their own
    pin,             \* the text handed to a parser, and how it was built
    parser,          \* the parser that ran on it ("none" before)
    result,          \* what it returned
    \* the other pure functions on their own
    arg,             \* the argument handed to a function
    fn,              \* the function that ran on it ("none" before)
    ret,             \* what it returned
    \* the PDFs of the request
    pdf_seen,        \* the PDFs validate_pdf looked at, with its verdicts
    extracted        \* the files extract_text was called on

vars == <<endpoint, pc, nfiles, vidx, status, rejected_by, disk, created, validated,
          events, full_response, parse_count, conf_count, parsed, closed,
          progress, gw, pin, parser, result, arg, fn, ret, pdf_seen, extracted>>

relayVars == <<endpoint, pc, nfiles, vidx, status, rejected_by, disk, created, validated,
               events, full_response, parse_count, conf_count, parsed, closed,
               progress, gw, pdf_seen, extracted>>
parseVars == <<pin, parser, result>>
fnVars == <<arg, fn, ret>>
pdfVars == <<pdf_seen, extracted>>

NoResult == [success |-> FALSE, items |-> <<>>, summary |-> NoSummary,
             has_raw |-> FALSE, raw |-> <<>>, data |-> <<>>, raised |-> FALSE]

NoArg == [kind |-> "none"]

\* --------------------------------------------- the parsers on their own
\* Replies that embed a JSON object with the anchor list: empty, with one
\* nested item, with two, followed by another member, and followed by the
\* member "overall_risk_level" ("L" is that key).
Payloads ==
    { <<"{", "A", "[", "]", "}">>,
      <<"{", "A", "[", "{", "k", "n", "}", "]", "}">>,
      <<"{", "k", "n", "A", "[", "{", "k", "n", "}", "{", "k", "n", "}", "]", "}">>,
      <<"{", "A", "[", "{", "k", "n", "}", "]", "k", "n", "}">>,
      <<"{", "A", "[", "]", "L", "n", "}">> }

Prose == {<<>>, <<"p">>, <<"P">>}

\* Texts in braces that json.loads rejects: a key without a value, an
\* object that is not closed.
BadObjects == { <<"{", "k", "}">>, <<"{", "{", "}">>, <<"{", "A", "}">> }

RECURSIVE TextsUpTo(_)
TextsUpTo(n) ==
    IF n = 0 THEN {<<>>}
    ELSE LET shorter == TextsUpTo(n - 1) IN
         shorter \cup {Append(t, x) : t \in {u \in shorter : Len(u) = n - 1}, x \in Tokens}

ParseInputs ==
    {[text |-> t, shape |-> "free", payload |-> <<>>] : t \in TextsUpTo(MaxLen)}
    \cup {[text |-> a \o <<"F">> \o pl \o <<"F">> \o b, shape |-> "fenced", payload |-> pl] :
            pl \in Payloads, a \in Prose, b \in Prose}
    \cup {[text |-> a \o pl \o b, shape |-> "prose", payload |-> pl] :
            pl \in Payloads, a \in Prose \ {<<>>}, b \in Prose \ {<<>>}}
    \cup {[text |-> pl, shape |-> "raw", payload |-> pl] : pl \in Payloads}
    \cup {[text |-> <<"F">> \o bad \o <<"F">> \o a \o pl,
           shape |-> "bad_fence_then_object", payload |-> pl] :
            pl \in Payloads, bad \in BadObjects, a \in Prose}
    \cup {[text |-> <<"{", "A", "}">> \o a \o pl,
           shape |-> "bad_anchor_then_object", payload |-> pl] :
            pl \in Payloads, a \in Prose}
    \cup {[text |-> pl \o a \o <<"F">> \o bad \o <<"F">>,
           shape |-> "object_then_bad_fence", payload |-> pl] :
            pl \in Payloads, bad \in BadObjects, a \in Prose}

Parse(which) ==
    /\ parser = "none"
    /\ parser' = which
    /\ result' = RunParser(which, pin.text)
    /\ UNCHANGED <<pin, relayVars, fnVars>>

ParseRisk == Parse("risk")
ParseCompliance == Parse("compliance")
ParseSchedule == Parse("schedule")

\* ------------------------------------------ the items of a parsed reply
\* A JSON value of an item's "severity": a whole number, a number with a
\* fraction (n is the value in tenths), true/false (n is 1/0), a string that
\* spells a whole number, another string, or null.
SeverityValues ==
    {[kind |-> "int", n |-> n] : n \in -1..7}
    \cup {[kind |-> "float", n |-> n] : n \in {-5, 5, 37, 59, 61}}
    \cup {[kind |-> "bool", n |-> n] : n \in {0, 1}}
    \cup {[kind |-> "numstr", n |-> n] : n \in {0, 4, 9}}
    \cup {[kind |-> "str", n |-> 0], [kind |-> "null", n |-> 0]}

\* Python's int(v): a float is truncated toward zero, a string that is not a
\* number raises ValueError, None raises TypeError.
python_int(v) ==
    CASE v.kind \in {"int", "bool", "numstr"} -> [raised |-> FALSE, n |-> v.n]
      [] v.kind = "float" ->
           [raised |-> FALSE, n |-> IF v.n >= 0 THEN v.n \div 10 ELSE -((-v.n) \div 10)]
      [] OTHER -> [raised |-> TRUE, n |-> 0]

Max(a, b) == IF a >= b THEN a ELSE b

\* risk_severity_NoFloor: the clamp without its lower bound.
risk_severity_NoFloor(n) == Min(5, n)

\* severity = max(1, min(5, int(...))), after the conversion.
risk_severity(n) == Max(1, Min(5, n))

\* The loop of parse_risk_analysis_response over data["risks"], on the
\* severities of the items: an int() that raises is caught by the generic
\* except clause, and the result then holds no item at all.
RECURSIVE structure_risks(_)
structure_risks(sevs) ==
    IF sevs = <<>> THEN [success |-> TRUE, items |-> <<>>]
    ELSE LET c == python_int(Head(sevs))
             rest == structure_risks(Tail(sevs))
         IN IF c.raised \/ ~rest.success THEN [success |-> FALSE, items |-> <<>>]
            ELSE [success |-> TRUE, items |-> <<risk_severity(c.n)>> \o rest.items]

RECURSIVE SeqsUpTo(_, _)
SeqsUpTo(S, n) ==
    IF n = 0 THEN {<<>>}
    ELSE LET shorter == SeqsUpTo(S, n - 1) IN
         shorter \cup {Append(t, x) : t \in {u \in shorter : Len(u) = n - 1}, x \in S}

\* A JSON value of an item's "status".  A string is the sequence of its
\* parts: the words the code looks for and "x" for any other text; upper
\* says it is written in capitals.  The other values are null and a number.
StatusWords == {"pass", "meet", "warn", "partial", "unclear", "fail", "not"}
StatusValues ==
    {[kind |-> "str", atoms |-> <<a>>, upper |-> FALSE] : a \in StatusWords \cup {"x"}}
    \cup {[kind |-> "str", atoms |-> <<a>>, upper |-> TRUE] : a \in {"pass", "warn", "fail"}}
    \cup {[kind |-> "str", atoms |-> q, upper |-> FALSE] :
            q \in {<<>>, <<"not", "pass">>, <<"unclear", "fail">>, <<"x", "fail">>,
                   <<"fail", "x">>, <<"x", "x">>, <<"partial", "meet">>,
                   <<"unclear", "not", "pass">>}}
    \cup {[kind |-> "null", atoms |-> <<>>, upper |-> FALSE],
          [kind |-> "int", atoms |-> <<>>, upper |-> FALSE]}

\* status.lower(): the parts of the string, none in capitals any more.
str_lower(v) == v.atoms

\* word in status
InStatus(word, lowered) == \E i \in 1..Len(lowered) : lowered[i] = word

\* normalize_status_DefaultFail: the heuristics with "fail" as the default.
normalize_status_DefaultFail(lowered) ==
    IF lowered \in {<<"pass">>, <<"warn">>, <<"fail">>} THEN lowered[1]
    ELSE IF InStatus("pass", lowered) \/ InStatus("meet", lowered) THEN "pass"
    ELSE IF InStatus("warn", lowered) \/ InStatus("partial", lowered)
            \/ InStatus("unclear", lowered) THEN "warn"
    ELSE "fail"

\* parse_compliance_response on status = item.get("status", "").lower().
normalize_status(lowered) ==
    IF lowered \in {<<"pass">>, <<"warn">>, <<"fail">>} THEN lowered[1]
    ELSE IF InStatus("pass", lowered) \/ InStatus("meet", lowered) THEN "pass"
    ELSE IF InStatus("warn", lowered) \/ InStatus("partial", lowered)
            \/ InStatus("unclear", lowered) THEN "warn"
    ELSE IF InStatus("fail", lowered) \/ InStatus("not", lowered) THEN "fail"
    ELSE "warn"

\* The loop of parse_compliance_response over data["compliance_items"], on
\* the statuses of the items: .lower() of a value that is no string raises
\* AttributeError, the generic except clause returns a result without items.
RECURSIVE structure_compliance(_)
structure_compliance(sts) ==
    IF sts = <<>> THEN [success |-> TRUE, items |-> <<>>]
    ELSE LET v == Head(sts)
             rest == structure_compliance(Tail(sts))
         IN IF v.kind # "str" \/ ~rest.success THEN [success |-> FALSE, items |-> <<>>]
            ELSE [success |-> TRUE, items |-> <<normalize_status(str_lower(v))>> \o rest.items]

ComplianceInputs == {[kind |-> "statuses", sts |-> q] : q \in SeqsUpTo(StatusValues, MaxItems)}

ApplyCompliance ==
    /\ fn = "none"
    /\ arg.kind = "statuses"
    /\ fn' = "structure_compliance"
    /\ ret' = structure_compliance(arg.sts)
    /\ UNCHANGED <<arg, relayVars, parseVars>>

RiskInputs == {[kind |-> "risks", sevs |-> q] : q \in SeqsUpTo(SeverityValues, MaxItems)}

ApplyRisks ==
    /\ fn = "none"
    /\ arg.kind = "risks"
    /\ fn' = "structure_risks"
    /\ ret' = structure_risks(arg.sevs)
    /\ UNCHANGED <<arg, relayVars, parseVars>>

\* ---------------------------------------------------------- Model Gateway
FailKinds == {"429", "5xx", "4xx", "other"}
FragTokens == {"{", "}", "n"}

RECURSIVE Pow2(_)
Pow2(n) == IF n = 0 THEN 1 ELSE 2 * Pow2(n - 1)

GwIdle == [op |-> "none", pc |-> "idle", attempt |-> 0, attempts |-> 0,
           delay |-> base_delay, sleeps |-> <<>>, chunk |-> "", nfrags |-> 0,
           err |-> "", encoded |-> 0, b64_max |-> 0, oversize |-> 0, cur |-> 0,
           last_kind |-> "", temps_left |-> 0]

\* The first next() on stream_completion: delay = base_delay, attempt 0 opens
\* the upstream stream.
stream_completion_start ==
    [GwIdle EXCEPT !.op = "completion", !.pc = "running", !.attempts = 1]

\* stream_completion's except clauses if the raise for a 4xx were caught by
\* the sibling "except Exception" clause: the 4xx is retried like any other
\* exception.
stream_completion_except_SiblingCatches(g, kind) ==
    LET wait_time == g.delay * Pow2(g.attempt)
        retry == [g EXCEPT !.attempt = g.attempt + 1,
                           !.cur = 0,
                           !.attempts = g.attempts + 1,
                           !.sleeps = Append(g.sleeps, wait_time),
                           !.delay = IF kind = "429" THEN Min(wait_time * 2, DelayCap)
                                     ELSE g.delay]
    IN CASE g.attempt < max_retries - 1 -> retry
         [] kind = "4xx" -> [g EXCEPT !.pc = "raised", !.err = "API error"]
         [] kind = "429" -> [g EXCEPT !.pc = "raised", !.err = "Rate limit exceeded"]
         [] kind = "5xx" -> [g EXCEPT !.pc = "raised", !.err = "server error"]
         [] OTHER -> [g EXCEPT !.pc = "raised", !.err = "Error communicating"]

\* stream_completion's except clauses with the retry test off by one
\* (attempt < max_retries): a fourth attempt is made.
stream_completion_except_ExtraAttempt(g, kind) ==
    LET wait_time == g.delay * Pow2(g.attempt)
        retry == [g EXCEPT !.attempt = g.attempt + 1,
                           !.cur = 0,
                           !.attempts = g.attempts + 1,
                           !.sleeps = Append(g.sleeps, wait_time),
                           !.delay = IF kind = "429" THEN Min(wait_time * 2, DelayCap)
                                     ELSE g.delay]
    IN CASE kind = "4xx" -> [g EXCEPT !.pc = "raised", !.err = "API error"]
         [] g.attempt < max_retries -> retry
         [] kind = "429" -> [g EXCEPT !.pc = "raised", !.err = "Rate limit exceeded"]
         [] kind = "5xx" -> [g EXCEPT !.pc = "raised", !.err = "server error"]
         [] OTHER -> [g EXCEPT !.pc = "raised", !.err = "Error communicating"]

\* The except clauses of stream_completion for a failure of the given kind in
\* attempt g.attempt: sleep and go round the loop again, or raise.  The raise
\* inside "except APIError" is not caught by the sibling "except Exception".
stream_completion_except(g, kind) ==
    LET wait_time == g.delay * Pow2(g.attempt)
        retry == [g EXCEPT !.attempt = g.attempt + 1,
                           !.cur = 0,
                           !.attempts = g.attempts + 1,
                           !.sleeps = Append(g.sleeps, wait_time),
                           !.delay = IF kind = "429" THEN Min(wait_time * 2, DelayCap)
                                     ELSE g.delay]
    IN CASE kind = "4xx" -> [g EXCEPT !.pc = "raised", !.err = "API error"]
         [] g.attempt < max_retries - 1 -> retry
         [] kind = "429" -> [g EXCEPT !.pc = "raised", !.err = "Rate limit exceeded"]
         [] kind = "5xx" -> [g EXCEPT !.pc = "raised", !.err = "server error"]
         [] OTHER -> [g EXCEPT !.pc = "raised", !.err = "Error communicating"]

\* An image file: its size in bytes and, for a file over MAX_IMAGE_SIZE_BYTES,
\* what compress_image makes of it: "error" (Pillow raised) or the size of
\* the JPEG it wrote, which after the last resize is returned whatever it is.
\* temp_made says whether tempfile.mkstemp had created the 'compressed_' file
\* when Pillow raised: Image.open and the conversions come before it, img.save
\* after it.
\* The largest file whose base64 text stays within the ceiling.
RawFit == (B64Ceiling \div 4) * 3
Images ==
    {[size |-> MAX_IMAGE_SIZE_BYTES, compress |-> "none", compressed_size |-> 0,
      temp_made |-> FALSE]}
    \cup {[size |-> z, compress |-> "error", compressed_size |-> 0, temp_made |-> t] :
            z \in {MAX_IMAGE_SIZE_BYTES + 1, RawFit + 1}, t \in BOOLEAN}
    \cup {[size |-> MAX_IMAGE_SIZE_BYTES + 1, compress |-> "jpeg", compressed_size |-> c,
           temp_made |-> TRUE] :
            c \in {MAX_IMAGE_SIZE_BYTES, RawFit, RawFit + 1}}

\* The images of a request that reached the vision call.
SavedImages == Images

\* compress_image: the size of the file at the path it returns.
compress_image(img) ==
    IF img.size <= MAX_IMAGE_SIZE_BYTES THEN img.size
    ELSE IF img.compress = "error" THEN img.size
    ELSE img.compressed_size

\* compress_image: the path it returns, image_path or the temp_path it made.
compressed_path(img) ==
    IF img.size <= MAX_IMAGE_SIZE_BYTES THEN "image_path"
    ELSE IF img.compress = "error" THEN "image_path"
    ELSE "temp_path"

\* The finally clause of encode_image: the file at compressed_path is
\* unlinked when it is not image_path.  TRUE when a 'compressed_' file that
\* compress_image created still exists afterwards.
temp_left(img) ==
    LET is_temp_file == compressed_path(img) # "image_path"
    IN img.temp_made /\ ~is_temp_file

\* len(base64.b64encode(data)) for data of n bytes
b64len(n) == 4 * ((n + 2) \div 3)

\* encode_image_NoCeiling: without the check of the encoded size.
encode_image_NoCeiling(img) ==
    [raised |-> FALSE, b64 |-> b64len(compress_image(img)), temp_left |-> temp_left(img)]

\* encode_image: compress, encode, and refuse what is over the ceiling.
encode_image(img) ==
    LET encoded_size_bytes == b64len(compress_image(img))
    IN [raised |-> encoded_size_bytes > B64Ceiling, b64 |-> encoded_size_bytes,
        temp_left |-> temp_left(img)]

\* stream_image_analysis opens one upstream stream; its only except clause
\* logs and re-raises.
stream_image_analysis_start ==
    [GwIdle EXCEPT !.op = "vision", !.pc = "encoding"]

stream_image_analysis_except(g, kind) ==
    [g EXCEPT !.pc = "raised", !.err = kind]

gateway_except(g, kind) ==
    IF g.op = "completion" THEN stream_completion_except(g, kind)
    ELSE stream_image_analysis_except(g, kind)

\* ------------------------------------------------------------ validate_pdf
\* A PDF file: its size in bytes, its page count, and whether fitz can open it.
Pdfs ==
    {[size |-> z, pages |-> n, readable |-> r] :
        z \in {MAX_SIZE, MAX_SIZE + 1}, n \in {MAX_PAGES, MAX_PAGES + 1}, r \in BOOLEAN}

\* The files validate_pdf is handed by an endpoint: what the upload wrote,
\* whose size validate_uploaded_file accepted.
SavedPdfs == {p \in Pdfs : p.size <= MAX_SIZE}

\* validate_pdf_NoPageLimit: without the check of the page count.
validate_pdf_NoPageLimit(p) ==
    IF p.size > MAX_SIZE THEN [valid |-> FALSE, error |-> "size"]
    ELSE IF ~p.readable THEN [valid |-> FALSE, error |-> "unreadable"]
    ELSE [valid |-> TRUE, error |-> ""]

\* PDFProcessor.validate_pdf
validate_pdf(p) ==
    IF p.size > MAX_SIZE THEN [valid |-> FALSE, error |-> "size"]
    ELSE IF ~p.readable THEN [valid |-> FALSE, error |-> "unreadable"]
    ELSE IF p.pages > MAX_PAGES THEN [valid |-> FALSE, error |-> "pages"]
    ELSE [valid |-> TRUE, error |-> ""]

\* ------------------------------------------------------- request handlers
Endpoints == {"site_scribe", "code_commander", "contract_hawk",
              "submittal_scrubber", "lookahead_builder", "file_test"}
PdfEndpoints == {"code_commander", "contract_hawk", "submittal_scrubber", "file_test"}
\* Endpoints whose handler checks a form field before it looks at the files.
InputChecked == {"site_scribe", "code_commander", "lookahead_builder"}

FileCounts(e) ==
    CASE e = "site_scribe" -> {0}
      [] e = "submittal_scrubber" -> {2}
      [] e = "lookahead_builder" -> 1..MaxImages
      [] OTHER -> {1}

FirstPc(e) == IF e \in InputChecked THEN "start" ELSE "validate"

\* progress_updates of send_progress_updates: the argument of the sleep, in
\* tenths of a second, and the stage the update announces.
progress_updates ==
    << [delay |-> 15, stage_idx |-> 2], [delay |-> 30, stage_idx |-> 3],
       [delay |-> 50, stage_idx |-> 4], [delay |-> 70, stage_idx |-> 5] >>

\* The progress task: elapsed is the time its sleeps have taken since it was
\* started (tenths of a second; the least time that can have passed),
\* queued_at the value of elapsed at which each update was queued.
NoProgress == [task |-> "none", sent |-> 0, queue |-> <<>>, streaming_complete |-> FALSE,
               elapsed |-> 0, queued_at |-> <<>>]

\* raise HTTPException(code): the handler is over, no stream is opened.
Reject(code, why) ==
    /\ status' = code
    /\ rejected_by' = why
    /\ pc' = "done"

\* TemporaryFile.__exit__ / FileCleanup.cleanup_file: the files are removed.
TemporaryFile_exit(d, files) == d \ files

\* The unlink loops of the schedule endpoint over temp_file_paths.
unlink_all(d, temp_file_paths) == d \ temp_file_paths

\* transform_notes, query_document, generate_schedule: the check of the text,
\* the question, the goal and the image list that opens the handler.
CheckInput ==
    /\ pc = "start"
    /\ \E ok \in BOOLEAN :
         IF ~ok THEN Reject(400, "input")
         ELSE /\ pc' = CASE endpoint = "site_scribe" -> "gen_start"
                         [] endpoint = "lookahead_builder" -> "lb_validate"
                         [] OTHER -> "validate"
              /\ status' = IF endpoint = "site_scribe" THEN 200 ELSE status
              /\ UNCHANGED rejected_by
    /\ UNCHANGED <<endpoint, nfiles, vidx, disk, created, validated, events,
                   full_response, parse_count, conf_count, parsed, closed,
                   progress, gw, parseVars, fnVars, pdfVars>>

\* await validate_uploaded_file(file, "pdf"), once per uploaded file, all of
\* them before the first TemporaryFile is entered.
ValidateUpload ==
    /\ pc = "validate"
    /\ \E ok \in BOOLEAN :
         IF ~ok THEN Reject(400, "upload") /\ UNCHANGED <<vidx, validated>>
         ELSE /\ validated' = validated \cup {vidx}
              /\ vidx' = IF vidx = nfiles THEN 1 ELSE vidx + 1
              /\ pc' = IF vidx = nfiles THEN "save" ELSE "validate"
              /\ UNCHANGED <<status, rejected_by>>
    /\ UNCHANGED <<endpoint, nfiles, disk, created, events, full_response,
                   parse_count, conf_count, parsed, closed, progress, gw, parseVars, fnVars, pdfVars>>

\* with TemporaryFile(...) as path: the files are created, then the uploads
\* are written to them.  A write that raises leaves the with blocks, which
\* remove the files, and the handler answers 500.
SaveTemp ==
    /\ pc = "save"
    /\ created' = 1..nfiles
    /\ \E ok \in BOOLEAN :
         IF ok THEN /\ disk' = 1..nfiles
                    /\ pc' = "validate_pdf"
                    /\ UNCHANGED <<status, rejected_by>>
         ELSE /\ disk' = TemporaryFile_exit(1..nfiles, 1..nfiles)
              /\ Reject(500, "unexpected")
    /\ UNCHANGED <<endpoint, nfiles, vidx, validated, events, full_response,
                   parse_count, conf_count, parsed, closed, progress, gw, parseVars, fnVars, pdfVars>>

\* PDFProcessor.validate_pdf on each file; an invalid PDF is a 400.
ValidatePdf ==
    /\ pc = "validate_pdf"
    /\ \E pdf \in SavedPdfs :
         LET pdf_validation == validate_pdf(pdf) IN
         /\ pdf_seen' = Append(pdf_seen, [pdf |-> pdf, valid |-> pdf_validation.valid])
         /\ IF ~pdf_validation.valid
            THEN /\ disk' = TemporaryFile_exit(disk, 1..nfiles)
                 /\ Reject(400, "pdf")
                 /\ UNCHANGED vidx
            ELSE /\ vidx' = IF vidx = nfiles THEN 1 ELSE vidx + 1
                 /\ pc' = IF vidx = nfiles THEN "extract" ELSE "validate_pdf"
                 /\ UNCHANGED <<status, rejected_by, disk>>
    /\ UNCHANGED <<endpoint, nfiles, created, validated, events, full_response,
                   parse_count, conf_count, parsed, closed, progress, gw, parseVars,
                   fnVars, extracted>>

\* PDFProcessor.extract_text on each file; a failed extraction is a 500.  The
\* file test endpoint reports the outcome in a JSON response instead.
Extract ==
    /\ pc = "extract"
    /\ extracted' = extracted \cup {vidx}
    /\ \E ok \in BOOLEAN :
         IF endpoint = "file_test"
         THEN /\ disk' = TemporaryFile_exit(disk, 1..nfiles)
              /\ status' = 200
              /\ pc' = "done"
              /\ UNCHANGED <<vidx, rejected_by>>
         ELSE IF ~ok THEN /\ disk' = TemporaryFile_exit(disk, 1..nfiles)
                          /\ Reject(500, "extract")
                          /\ UNCHANGED vidx
         ELSE /\ vidx' = IF vidx = nfiles THEN 1 ELSE vidx + 1
              /\ pc' = IF vidx = nfiles THEN "text_check" ELSE "extract"
              /\ UNCHANGED <<status, rejected_by, disk>>
    /\ UNCHANGED <<endpoint, nfiles, created, validated, events, full_response,
                   parse_count, conf_count, parsed, closed, progress, gw, parseVars, fnVars,
                   pdf_seen>>

\* The check that the extracted text has at least 10 characters; after the
\* last one the handler returns the StreamingResponse, leaving the with
\* blocks: the stream opens with the temporary files already removed.
TextCheck ==
    /\ pc = "text_check"
    /\ \E ok \in BOOLEAN :
         IF ~ok THEN /\ disk' = TemporaryFile_exit(disk, 1..nfiles)
                     /\ Reject(400, "empty")
                     /\ UNCHANGED vidx
         ELSE IF vidx < nfiles
         THEN /\ vidx' = vidx + 1
              /\ UNCHANGED <<pc, status, rejected_by, disk>>
         ELSE /\ disk' = TemporaryFile_exit(disk, 1..nfiles)
              /\ status' = 200
              /\ pc' = "gen_start"
              /\ UNCHANGED <<vidx, rejected_by>>
    /\ UNCHANGED <<endpoint, nfiles, created, validated, events, full_response,
                   parse_count, conf_count, parsed, closed, progress, gw, parseVars, fnVars, pdfVars>>

\* generate_schedule, the loop over image_files: image idx is validated only
\* after images 0..idx-1 were saved.  The HTTPException of a failed validation
\* passes "except HTTPException: raise", which removes nothing.
ValidateImage ==
    /\ pc = "lb_validate"
    /\ \E ok \in BOOLEAN :
         IF ~ok THEN Reject(400, "upload") /\ UNCHANGED validated
         ELSE /\ validated' = validated \cup {vidx}
              /\ pc' = "lb_save"
              /\ UNCHANGED <<status, rejected_by>>
    /\ UNCHANGED <<endpoint, nfiles, vidx, disk, created, events, full_response,
                   parse_count, conf_count, parsed, closed, progress, gw, parseVars, fnVars, pdfVars>>

\* tempfile.mkstemp, then the write of the image.  "empty": nothing was
\* written (or the write raised): the inner except unlinks this file and
\* raises HTTPException(500), which removes no earlier file.  "oserror":
\* mkstemp itself raised: the outer "except Exception" unlinks every path of
\* temp_file_paths and answers 500.
SaveImage ==
    /\ pc = "lb_save"
    /\ \E outcome \in {"ok", "empty", "oserror"} :
         CASE outcome = "ok" ->
                /\ created' = created \cup {vidx}
                /\ disk' = disk \cup {vidx}
                /\ vidx' = IF vidx = nfiles THEN vidx ELSE vidx + 1
                /\ pc' = IF vidx = nfiles THEN "gen_start" ELSE "lb_validate"
                /\ status' = IF vidx = nfiles THEN 200 ELSE status
                /\ UNCHANGED rejected_by
           [] outcome = "empty" ->
                /\ created' = created \cup {vidx}
                /\ disk' = (disk \cup {vidx}) \ {vidx}
                /\ Reject(500, "save")
                /\ UNCHANGED vidx
           [] OTHER ->
                /\ disk' = unlink_all(disk, created)
                /\ Reject(500, "unexpected")
                /\ UNCHANGED <<vidx, created>>
    /\ UNCHANGED <<endpoint, nfiles, validated, events, full_response,
                   parse_count, conf_count, parsed, closed, progress, gw, parseVars, fnVars, pdfVars>>

\* ------------------------------------------------------ stream generators
\* overall_risk_level is a JSON text, empty in an event that has no such field.
TextEvent(c) == [type |-> "text", chunk |-> c, stage |-> 0, success |-> TRUE, msg |-> "",
                 overall_risk_level |-> <<>>]
ProgressEvent(n) == [type |-> "progress", chunk |-> "", stage |-> n, success |-> TRUE, msg |-> "",
                     overall_risk_level |-> <<>>]
CompleteEvent(ok) == [type |-> "complete", chunk |-> "", stage |-> 0, success |-> ok, msg |-> "",
                      overall_risk_level |-> <<>>]
ErrorEvent(m) == [type |-> "error", chunk |-> "", stage |-> 0, success |-> FALSE, msg |-> m,
                  overall_risk_level |-> <<>>]

\* The keys of the dict parse_risk_analysis_response returns (raw_response
\* after a failure only).
RiskResultKeys == {"risks", "summary", "success", "raw_response"}

\* parsed_data.get('overall_risk_level'): None for a key the dict lacks.
overall_risk_level(parsed_data) ==
    IF "overall_risk_level" \in RiskResultKeys THEN parsed_data.overall_risk_level
    ELSE <<"None">>

\* The complete event of the contract risk stream.
risk_complete_event(parsed_data) ==
    [CompleteEvent(parsed_data.success)
       EXCEPT !.overall_risk_level = overall_risk_level(parsed_data)]

CompletionEndpoints == {"site_scribe", "code_commander", "submittal_scrubber"}

\* The generator is suspended at one of its yields: the caller holds the
\* event, the event loop is free.
YieldPcs == {"ch_p1_yield", "ch_p2_yield", "ch_loop_yield", "text_yield",
             "ch_fin_yield", "ch_p6_yield", "lb_intro_yield", "lb_error_yield",
             "final_yield"}

\* site_scribe, code_commander, submittal_scrubber: the first next() of the
\* generator enters the for loop over stream_completion.
GenBegin ==
    /\ pc = "gen_start"
    /\ endpoint \in CompletionEndpoints
    /\ gw' = stream_completion_start
    /\ pc' = "pull"
    /\ UNCHANGED <<endpoint, nfiles, vidx, status, rejected_by, disk, created,
                   validated, events, full_response, parse_count, conf_count,
                   parsed, closed, progress, parseVars, fnVars, pdfVars>>

\* contract_hawk: the progress event of stage 1, then asyncio.sleep(0.3).
CH_Begin ==
    /\ pc = "gen_start"
    /\ endpoint = "contract_hawk"
    /\ events' = Append(events, ProgressEvent(1))
    /\ pc' = "ch_p1_yield"
    /\ UNCHANGED <<endpoint, nfiles, vidx, status, rejected_by, disk, created,
                   validated, full_response, parse_count, conf_count, parsed,
                   closed, progress, gw, parseVars, fnVars, pdfVars>>

\* contract_hawk: the progress event of stage 2, then asyncio.sleep(0.2).
CH_Stage2 ==
    /\ pc = "ch_p1_yield"
    /\ events' = Append(events, ProgressEvent(2))
    /\ pc' = "ch_p2_yield"
    /\ UNCHANGED <<endpoint, nfiles, vidx, status, rejected_by, disk, created,
                   validated, full_response, parse_count, conf_count, parsed,
                   closed, progress, gw, parseVars, fnVars, pdfVars>>

\* contract_hawk: asyncio.create_task(send_progress_updates()), then the for
\* loop over stream_completion is entered.
CH_StartStream ==
    /\ pc = "ch_p2_yield"
    /\ progress' = [progress EXCEPT !.task = "running"]
    /\ gw' = stream_completion_start
    /\ pc' = "pull"
    /\ UNCHANGED <<endpoint, nfiles, vidx, status, rejected_by, disk, created,
                   validated, events, full_response, parse_count, conf_count,
                   parsed, closed, parseVars, fnVars, pdfVars>>

\* send_progress_updates: the task wakes from its sleep and queues the next
\* update unless streaming_complete is set.  It runs only while the
\* generator is suspended: the for loop over the gateway does not await.
ProgressTick ==
    /\ progress.task = "running"
    /\ pc \in YieldPcs
    /\ LET update == progress_updates[progress.sent + 1]
           now == progress.elapsed + update.delay
       IN progress' = [progress EXCEPT
                      !.sent = progress.sent + 1,
                      !.elapsed = now,
                      !.task = IF progress.sent + 1 = Len(progress_updates)
                               THEN "finished" ELSE "running",
                      !.queue = IF progress.streaming_complete THEN progress.queue
                                ELSE Append(progress.queue, update.stage_idx),
                      !.queued_at = IF progress.streaming_complete THEN progress.queued_at
                                    ELSE Append(progress.queued_at, now)]
    /\ UNCHANGED <<endpoint, pc, nfiles, vidx, status, rejected_by, disk, created,
                   validated, events, full_response, parse_count, conf_count,
                   parsed, closed, gw, parseVars, fnVars, pdfVars>>

\* lookahead_builder: the text event 'Analyzing images...' that opens the
\* stream.  It is not a fragment of the gateway.
LB_Begin ==
    /\ pc = "gen_start"
    /\ endpoint = "lookahead_builder"
    /\ events' = Append(events, TextEvent("Analyzing images..."))
    /\ pc' = "lb_intro_yield"
    /\ UNCHANGED <<endpoint, nfiles, vidx, status, rejected_by, disk, created,
                   validated, full_response, parse_count, conf_count, parsed,
                   closed, progress, gw, parseVars, fnVars, pdfVars>>

\* lookahead_builder: get_vision_client() inside the inner try; when it
\* raises, the except clause yields the error event.
LB_GetClient ==
    /\ pc = "lb_intro_yield"
    /\ \E ok \in BOOLEAN :
         IF ok THEN /\ gw' = stream_image_analysis_start
                    /\ pc' = "pull"
                    /\ UNCHANGED events
         ELSE /\ events' = Append(events, ErrorEvent("Vision API error"))
              /\ pc' = "lb_error_yield"
              /\ UNCHANGED gw
    /\ UNCHANGED <<endpoint, nfiles, vidx, status, rejected_by, disk, created,
                   validated, full_response, parse_count, conf_count, parsed,
                   closed, progress, parseVars, fnVars, pdfVars>>

\* ------------------------------------------- the gateway call, step by step
Pulling == pc \in {"pull", "text_yield"}

\* stream_image_analysis: encode_image on the next image; a failure (missing
\* or empty file, size exceeded) is re-raised by the except clause.  After
\* the last image the upstream stream is opened.
GwEncode ==
    /\ pc = "pull"
    /\ gw.pc = "encoding"
    /\ \E img \in SavedImages, io_ok \in BOOLEAN :
         LET image_data == encode_image(img)
             left == gw.temps_left + (IF image_data.temp_left THEN 1 ELSE 0) IN
         gw' = IF ~io_ok THEN stream_image_analysis_except(gw, "encode")
               ELSE IF image_data.raised
               THEN [stream_image_analysis_except(gw, "size_exceeded")
                       EXCEPT !.oversize = image_data.b64, !.temps_left = left]
               ELSE IF gw.encoded + 1 = nfiles
                    THEN [gw EXCEPT !.encoded = nfiles, !.pc = "running", !.attempts = 1,
                                    !.b64_max = Max(gw.b64_max, image_data.b64),
                                    !.temps_left = left]
                    ELSE [gw EXCEPT !.encoded = gw.encoded + 1,
                                    !.b64_max = Max(gw.b64_max, image_data.b64),
                                    !.temps_left = left]
    /\ UNCHANGED <<endpoint, pc, nfiles, vidx, status, rejected_by, disk, created,
                   validated, events, full_response, parse_count, conf_count,
                   parsed, closed, progress, parseVars, fnVars, pdfVars>>

\* for text_event in stream.text_stream: yield text_event
GwFragment ==
    /\ Pulling
    /\ gw.pc = "running"
    /\ gw.nfrags < MaxFrags
    /\ \E f \in FragTokens :
         gw' = [gw EXCEPT !.pc = "yielded", !.chunk = f, !.nfrags = gw.nfrags + 1,
                         !.cur = gw.cur + 1]
    /\ pc' = "pull"
    /\ UNCHANGED <<endpoint, nfiles, vidx, status, rejected_by, disk, created,
                   validated, events, full_response, parse_count, conf_count,
                   parsed, closed, progress, parseVars, fnVars, pdfVars>>

\* The upstream stream ends: break (stream_completion), fall off the end
\* (stream_image_analysis).
GwEnd ==
    /\ Pulling
    /\ gw.pc = "running"
    /\ gw' = [gw EXCEPT !.pc = "returned"]
    /\ pc' = "pull"
    /\ UNCHANGED <<endpoint, nfiles, vidx, status, rejected_by, disk, created,
                   validated, events, full_response, parse_count, conf_count,
                   parsed, closed, progress, parseVars, fnVars, pdfVars>>

\* The upstream attempt fails, before or after some fragments.
GwFail ==
    /\ Pulling
    /\ gw.pc = "running"
    /\ \E kind \in FailKinds : gw' = [gateway_except(gw, kind) EXCEPT !.last_kind = kind]
    /\ pc' = "pull"
    /\ UNCHANGED <<endpoint, nfiles, vidx, status, rejected_by, disk, created,
                   validated, events, full_response, parse_count, conf_count,
                   parsed, closed, progress, parseVars, fnVars, pdfVars>>

\* ------------------------------------------------- the relay loop and after
\* full_response += chunk; yield the text event.  (All endpoints but
\* contract_hawk, whose loop body first empties the progress queue.)
RelayChunk ==
    /\ pc = "pull"
    /\ gw.pc = "yielded"
    /\ endpoint # "contract_hawk"
    /\ full_response' = Append(full_response, gw.chunk)
    /\ events' = Append(events, TextEvent(gw.chunk))
    /\ gw' = [gw EXCEPT !.pc = "running", !.chunk = ""]
    /\ pc' = "text_yield"
    /\ UNCHANGED <<endpoint, nfiles, vidx, status, rejected_by, disk, created,
                   validated, parse_count, conf_count, parsed, closed, progress,
                   parseVars, fnVars, pdfVars>>

\* contract_hawk: full_response += chunk, and the loop body goes on.
CH_Chunk ==
    /\ pc = "pull"
    /\ gw.pc = "yielded"
    /\ endpoint = "contract_hawk"
    /\ full_response' = Append(full_response, gw.chunk)
    /\ pc' = "ch_loop"
    /\ UNCHANGED <<endpoint, nfiles, vidx, status, rejected_by, disk, created,
                   validated, events, parse_count, conf_count, parsed, closed,
                   progress, gw, parseVars, fnVars, pdfVars>>

\* contract_hawk: while progress_queue: popleft, yield progress; then yield
\* the text event of the chunk.
CH_LoopStep ==
    /\ pc \in {"ch_loop", "ch_loop_yield"}
    /\ IF progress.queue # <<>>
       THEN /\ events' = Append(events, ProgressEvent(Head(progress.queue)))
            /\ progress' = [progress EXCEPT !.queue = Tail(progress.queue)]
            /\ pc' = "ch_loop_yield"
            /\ UNCHANGED gw
       ELSE /\ events' = Append(events, TextEvent(gw.chunk))
            /\ gw' = [gw EXCEPT !.pc = "running", !.chunk = ""]
            /\ pc' = "text_yield"
            /\ UNCHANGED progress
    /\ UNCHANGED <<endpoint, nfiles, vidx, status, rejected_by, disk, created,
                   validated, full_response, parse_count, conf_count, parsed,
                   closed, parseVars, fnVars, pdfVars>>

\* contract_hawk, the finally of the inner try, entered when the gateway call
\* returned or raised: streaming_complete = True; progress_task.cancel().
CH_Finally ==
    /\ pc = "pull"
    /\ gw.pc \in {"returned", "raised"}
    /\ endpoint = "contract_hawk"
    /\ progress' = [progress EXCEPT
                      !.streaming_complete = TRUE,
                      !.task = IF progress.task = "running" THEN "cancelled"
                               ELSE progress.task]
    /\ pc' = "ch_finally"
    /\ UNCHANGED <<endpoint, nfiles, vidx, status, rejected_by, disk, created,
                   validated, events, full_response, parse_count, conf_count,
                   parsed, closed, gw, parseVars, fnVars, pdfVars>>

\* CH_FinallyStep_NoFlush: the finally without its while loop over the queue.
CH_FinallyStep_NoFlush ==
    /\ pc \in {"ch_finally", "ch_fin_yield"}
    /\ IF gw.pc = "raised"
       THEN /\ events' = Append(events, ErrorEvent(gw.err))
            /\ pc' = "final_yield"
            /\ UNCHANGED progress
       ELSE /\ events' = Append(events, ProgressEvent(6))
            /\ pc' = "ch_p6_yield"
            /\ UNCHANGED progress
    /\ UNCHANGED <<endpoint, nfiles, vidx, status, rejected_by, disk, created,
                   validated, full_response, parse_count, conf_count, parsed,
                   closed, gw, parseVars, fnVars, pdfVars>>

\* contract_hawk, the rest of the finally: the remaining progress updates are
\* yielded; then the exception of the gateway goes on to the outer except
\* clause, which yields the error event, or the stage 6 event is yielded.
CH_FinallyStep ==
    /\ pc \in {"ch_finally", "ch_fin_yield"}
    /\ IF progress.queue # <<>>
       THEN /\ events' = Append(events, ProgressEvent(Head(progress.queue)))
            /\ progress' = [progress EXCEPT !.queue = Tail(progress.queue)]
            /\ pc' = "ch_fin_yield"
       ELSE IF gw.pc = "raised"
       THEN /\ events' = Append(events, ErrorEvent(gw.err))
            /\ pc' = "final_yield"
            /\ UNCHANGED progress
       ELSE /\ events' = Append(events, ProgressEvent(6))
            /\ pc' = "ch_p6_yield"
            /\ UNCHANGED progress
    /\ UNCHANGED <<endpoint, nfiles, vidx, status, rejected_by, disk, created,
                   validated, full_response, parse_count, conf_count, parsed,
                   closed, gw, parseVars, fnVars, pdfVars>>

\* contract_hawk: parse, calculate_confidence, the complete event.
CH_Complete ==
    /\ pc = "ch_p6_yield"
    /\ parsed' = parse_risk_analysis_response(full_response)
    /\ parse_count' = parse_count + 1
    /\ conf_count' = conf_count + 1
    /\ events' = Append(events, risk_complete_event(parsed'))
    /\ pc' = "final_yield"
    /\ UNCHANGED <<endpoint, nfiles, vidx, status, rejected_by, disk, created,
                   validated, full_response, closed, progress, gw, parseVars, fnVars, pdfVars>>

\* site_scribe, code_commander, submittal_scrubber after the loop: the
\* structured result (citations, compliance items; none for site_scribe),
\* calculate_confidence, the complete event.
Complete ==
    /\ pc = "pull"
    /\ gw.pc = "returned"
    /\ endpoint \in CompletionEndpoints
    /\ parsed' = IF endpoint = "submittal_scrubber"
                 THEN parse_compliance_response(full_response) ELSE parsed
    /\ parse_count' = IF endpoint = "site_scribe" THEN parse_count ELSE parse_count + 1
    /\ conf_count' = conf_count + 1
    /\ events' = Append(events, CompleteEvent(IF endpoint = "submittal_scrubber"
                                               THEN parsed'.success ELSE TRUE))
    /\ pc' = "final_yield"
    /\ UNCHANGED <<endpoint, nfiles, vidx, status, rejected_by, disk, created,
                   validated, full_response, closed, progress, gw, parseVars, fnVars, pdfVars>>

\* site_scribe, code_commander, submittal_scrubber: except Exception as e:
\* yield the error event.
GatewayError ==
    /\ pc = "pull"
    /\ gw.pc = "raised"
    /\ endpoint \in CompletionEndpoints
    /\ events' = Append(events, ErrorEvent(gw.err))
    /\ pc' = "final_yield"
    /\ UNCHANGED <<endpoint, nfiles, vidx, status, rejected_by, disk, created,
                   validated, full_response, parse_count, conf_count, parsed,
                   closed, progress, gw, parseVars, fnVars, pdfVars>>

\* What the schedule generator does once the vision stream is exhausted: an
\* empty reply and a reply that does not parse end in an error event; only
\* a parsed reply is scored and ends in the complete event.
schedule_terminal(reply) ==
    IF reply = <<>> THEN ErrorEvent("No response from vision API")
    ELSE IF ~parse_schedule_response(reply).success THEN ErrorEvent("JSON parsing error")
    ELSE CompleteEvent(TRUE)

\* lookahead_builder after the loop: the inner finally unlinks the images.
LB_AfterStream ==
    /\ pc = "pull"
    /\ gw.pc = "returned"
    /\ endpoint = "lookahead_builder"
    /\ disk' = unlink_all(disk, created)
    /\ parsed' = IF full_response = <<>> THEN parsed
                 ELSE parse_schedule_response(full_response)
    /\ parse_count' = IF full_response = <<>> THEN parse_count ELSE parse_count + 1
    /\ conf_count' = IF schedule_terminal(full_response).type = "complete"
                     THEN conf_count + 1 ELSE conf_count
    /\ events' = Append(events, schedule_terminal(full_response))
    /\ pc' = "final_yield"
    /\ UNCHANGED <<endpoint, nfiles, vidx, status, rejected_by, created,
                   validated, full_response, closed, progress, gw, parseVars, fnVars, pdfVars>>

\* lookahead_builder: except Exception as vision_error: yield the error
\* event; the images are still on disk while the generator is suspended.
LB_VisionError ==
    /\ pc = "pull"
    /\ gw.pc = "raised"
    /\ endpoint = "lookahead_builder"
    /\ events' = Append(events, ErrorEvent("Vision API error"))
    /\ pc' = "lb_error_yield"
    /\ UNCHANGED <<endpoint, nfiles, vidx, status, rejected_by, disk, created,
                   validated, full_response, parse_count, conf_count, parsed,
                   closed, progress, gw, parseVars, fnVars, pdfVars>>

\* lookahead_builder's vision_error handler without its return: the
\* generator goes on to the empty-reply check and yields a second error event.
LB_ErrorReturn_NoReturn ==
    /\ pc = "lb_error_yield"
    /\ disk' = unlink_all(disk, created)
    /\ events' = Append(events, ErrorEvent("No response from vision API"))
    /\ pc' = "final_yield"
    /\ UNCHANGED <<endpoint, nfiles, vidx, status, rejected_by, created,
                   validated, full_response, parse_count, conf_count,
                   parsed, closed, progress, gw, parseVars, fnVars, pdfVars>>

\* lookahead_builder: return after the error event; the inner and the outer
\* finally unlink the images.
LB_ErrorReturn ==
    /\ pc = "lb_error_yield"
    /\ disk' = unlink_all(disk, created)
    /\ pc' = "done"
    /\ UNCHANGED <<endpoint, nfiles, vidx, status, rejected_by, created,
                   validated, events, full_response, parse_count, conf_count,
                   parsed, closed, progress, gw, parseVars, fnVars, pdfVars>>

\* The caller asks for the event after the terminal one: the generator ends
\* (the outer finally of the schedule generator runs once more).
GenFinish ==
    /\ pc = "final_yield"
    /\ disk' = IF endpoint = "lookahead_builder" THEN unlink_all(disk, created) ELSE disk
    /\ pc' = "done"
    /\ UNCHANGED <<endpoint, nfiles, vidx, status, rejected_by, created,
                   validated, events, full_response, parse_count, conf_count,
                   parsed, closed, progress, gw, parseVars, fnVars, pdfVars>>

\* The caller goes away while the generator is suspended at a yield:
\* GeneratorExit is raised there, no except clause catches it, the finally
\* blocks run.  contract_hawk's finally yields when the progress queue is
\* not empty, which a generator being closed must not do (RuntimeError).
Disconnect ==
    /\ pc \in YieldPcs
    /\ LET in_try == endpoint = "contract_hawk" /\ pc \in {"ch_loop_yield", "text_yield"}
       IN /\ closed' = IF in_try /\ progress.queue # <<>> THEN "runtime_error" ELSE "clean"
          /\ progress' = IF in_try
                          THEN [progress EXCEPT
                                  !.streaming_complete = TRUE,
                                  !.task = IF progress.task = "running" THEN "cancelled"
                                           ELSE progress.task,
                                  !.queue = IF progress.queue # <<>> THEN Tail(progress.queue)
                                            ELSE progress.queue]
                          ELSE progress
    /\ disk' = IF endpoint = "lookahead_builder" THEN unlink_all(disk, created) ELSE disk
    /\ pc' = "done"
    /\ UNCHANGED <<endpoint, nfiles, vidx, status, rejected_by, created,
                   validated, events, full_response, parse_count, conf_count,
                   parsed, gw, parseVars, fnVars, pdfVars>>

\* ------------------------------------------------------------ specification
NoInput == [text |-> <<>>, shape |-> "free", payload |-> <<>>]

Init ==
    /\ endpoint \in Endpoints
    /\ nfiles \in FileCounts(endpoint)
    /\ pc = FirstPc(endpoint)
    /\ vidx = 1
    /\ status = 0
    /\ rejected_by = "none"
    /\ disk = {}
    /\ created = {}
    /\ validated = {}
    /\ events = <<>>
    /\ full_response = <<>>
    /\ parse_count = 0
    /\ conf_count = 0
    /\ parsed = NoResult
    /\ closed = "no"
    /\ progress = NoProgress
    /\ gw = GwIdle
    /\ pin = NoInput
    /\ parser = "none"
    /\ result = NoResult
    /\ arg = NoArg
    /\ fn = "none"
    /\ ret = NoArg
    /\ pdf_seen = <<>>
    /\ extracted = {}

Next ==
    \/ CheckInput \/ ValidateUpload \/ SaveTemp \/ ValidatePdf \/ Extract
    \/ TextCheck \/ ValidateImage \/ SaveImage
    \/ GenBegin \/ CH_Begin \/ CH_Stage2 \/ CH_StartStream \/ ProgressTick
    \/ LB_Begin \/ LB_GetClient
    \/ GwEncode \/ GwFragment \/ GwEnd \/ GwFail
    \/ RelayChunk \/ CH_Chunk \/ CH_LoopStep \/ CH_Finally \/ CH_FinallyStep
    \/ CH_Complete \/ Complete \/ GatewayError
    \/ LB_AfterStream \/ LB_VisionError \/ LB_ErrorReturn
    \/ GenFinish \/ Disconnect

Spec == Init /\ [][Next]_vars

\* The parsers on their own: no request is in flight.
InitParse ==
    /\ endpoint = "none"
    /\ nfiles = 0
    /\ pc = "idle"
    /\ vidx = 1
    /\ status = 0
    /\ rejected_by = "none"
    /\ disk = {}
    /\ created = {}
    /\ validated = {}
    /\ events = <<>>
    /\ full_response = <<>>
    /\ parse_count = 0
    /\ conf_count = 0
    /\ parsed = NoResult
    /\ closed = "no"
    /\ progress = NoProgress
    /\ gw = GwIdle
    /\ pin \in ParseInputs
    /\ parser = "none"
    /\ result = NoResult
    /\ arg = NoArg
    /\ fn = "none"
    /\ ret = NoArg
    /\ pdf_seen = <<>>
    /\ extracted = {}

NextParse == ParseRisk \/ ParseCompliance \/ ParseSchedule

SpecParse == InitParse /\ [][NextParse]_vars

\* ------------------------------------------------- Confidence Estimator
\* A reply text for the estimator is a sequence of pieces: "w" one blank,
\* "W" a run of BlankRun blanks, "c" one other character, "C" a run of
\* TextRun other characters, or one of the hedge words and phrases, as
\* written in the lists or in capitals.
uncertainty_words ==
    <<"might", "maybe", "perhaps", "possibly", "uncertain", "unclear", "not sure",
      "could be", "seems", "appears">>
qualifier_phrases ==
    <<"I think", "I believe", "in my opinion", "it seems", "it appears", "probably",
      "likely">>

ConfPieces == {"w", "W", "c", "C", "might", "MIGHT", "maybe", "it seems", "probably"}

PieceLen(t) ==
    CASE t \in {"w", "c"} -> 1
      [] t = "W" -> BlankRun
      [] t = "C" -> TextRun
      [] t \in {"might", "MIGHT", "maybe"} -> 5
      [] OTHER -> 8

RECURSIVE TextLen(_)
TextLen(s) == IF s = <<>> THEN 0 ELSE PieceLen(Head(s)) + TextLen(Tail(s))

IsBlank(t) == t \in {"w", "W"}

\* response_text.strip()
RECURSIVE LStrip(_), RStrip(_)
LStrip(s) == IF s # <<>> /\ IsBlank(Head(s)) THEN LStrip(Tail(s)) ELSE s
RStrip(s) == IF s # <<>> /\ IsBlank(s[Len(s)]) THEN RStrip(SubSeq(s, 1, Len(s) - 1)) ELSE s
str_strip(s) == RStrip(LStrip(s))

\* x.lower() of a piece or of a list entry
piece_lower(t) ==
    CASE t = "MIGHT" -> "might"
      [] t = "I think" -> "i think"
      [] t = "I believe" -> "i believe"
      [] OTHER -> t

\* word.lower() in response_text.lower(): a piece is the entry, or holds it
\* ("it seems" holds "seems", "it appears" holds "appears").
EntryIn(entry, s) ==
    \E i \in 1..Len(s) :
        \/ piece_lower(s[i]) = piece_lower(entry)
        \/ <<piece_lower(s[i]), piece_lower(entry)>>
              \in {<<"it seems", "seems">>, <<"it appears", "appears">>}

\* sum(1 for word in list if word.lower() in response_text.lower())
RECURSIVE count_entries(_, _)
count_entries(list, s) ==
    IF list = <<>> THEN 0
    ELSE (IF EntryIn(Head(list), s) THEN 1 ELSE 0) + count_entries(Tail(list), s)

\* calculate_confidence_StrictMed: Med only up to a score of 1.
calculate_confidence_StrictMed(response_text) ==
    IF response_text = <<>> \/ TextLen(str_strip(response_text)) < MinConfChars THEN "Low"
    ELSE LET uncertainty_score == count_entries(uncertainty_words, response_text)
                                  + count_entries(qualifier_phrases, response_text)
         IN IF uncertainty_score = 0 /\ TextLen(response_text) > HighConfChars THEN "High"
            ELSE IF uncertainty_score <= 1 THEN "Med"
            ELSE "Low"

calculate_confidence(response_text) ==
    IF response_text = <<>> \/ TextLen(str_strip(response_text)) < MinConfChars THEN "Low"
    ELSE LET uncertainty_score == count_entries(uncertainty_words, response_text)
                                  + count_entries(qualifier_phrases, response_text)
         IN IF uncertainty_score = 0 /\ TextLen(response_text) > HighConfChars THEN "High"
            ELSE IF uncertainty_score <= 2 THEN "Med"
            ELSE "Low"

ConfInputs == {[kind |-> "reply", text |-> q] : q \in SeqsUpTo(ConfPieces, MaxConfLen)}

ApplyConfidence ==
    /\ fn = "none"
    /\ arg.kind = "reply"
    /\ fn' = "calculate_confidence"
    /\ ret' = [level |-> calculate_confidence(arg.text)]
    /\ UNCHANGED <<arg, relayVars, parseVars>>

\* ------------------------------------------------- validate_uploaded_file
\* A file name is a sequence of characters, put together from parts.
NameParts == {"a", ".", "..", "/", "\\", ".pdf", ".PDF", ".png", ".WEBP", ".txt"}

Chars(part) ==
    CASE part = "a" -> <<"a">>
      [] part = "." -> <<".">>
      [] part = ".." -> <<".", ".">>
      [] part = "/" -> <<"/">>
      [] part = "\\" -> <<"\\">>
      [] part = ".pdf" -> <<".", "p", "d", "f">>
      [] part = ".PDF" -> <<".", "P", "D", "F">>
      [] part = ".png" -> <<".", "p", "n", "g">>
      [] part = ".WEBP" -> <<".", "W", "E", "B", "P">>
      [] part = ".jpg" -> <<".", "j", "p", "g">>
      [] part = ".jpeg" -> <<".", "j", "p", "e", "g">>
      [] part = ".gif" -> <<".", "g", "i", "f">>
      [] part = ".webp" -> <<".", "w", "e", "b", "p">>
      [] OTHER -> <<".", "t", "x", "t">>

RECURSIVE Spell(_)
Spell(parts) == IF parts = <<>> THEN <<>> ELSE Chars(Head(parts)) \o Spell(Tail(parts))

char_lower(c) ==
    CASE c = "P" -> "p" [] c = "D" -> "d" [] c = "F" -> "f"
      [] c = "W" -> "w" [] c = "E" -> "e" [] c = "B" -> "b"
      [] OTHER -> c

\* filename.lower()
name_lower(name) == [i \in 1..Len(name) |-> char_lower(name[i])]

\* name.endswith(ext)
endswith(name, ext) ==
    /\ Len(name) >= Len(ext)
    /\ SubSeq(name, Len(name) - Len(ext) + 1, Len(name)) = ext

\* sub in name
contains(name, sub) ==
    \E i \in 1..(Len(name) - Len(sub) + 1) : SubSeq(name, i, i + Len(sub) - 1) = sub

allowed_extensions == <<".jpg", ".jpeg", ".png", ".gif", ".webp">>

HTTP400 == [raised |-> TRUE, status_code |-> 400, valid |-> FALSE]

\* validate_uploaded_file_NoTraversal: without the check of the file name
\* for "..", "/" and "\".
validate_uploaded_file_NoTraversal(file, file_type) ==
    LET max_allowed == IF file_type = "pdf" THEN MAX_SIZE ELSE ImageMaxSize
        named == file.has_name /\ file.filename # <<>>
        ext_ok == IF file_type = "pdf"
                  THEN endswith(name_lower(file.filename), Chars(".pdf"))
                  ELSE \E k \in 1..Len(allowed_extensions) :
                          endswith(name_lower(file.filename), Chars(allowed_extensions[k]))
    IN IF file.size > max_allowed THEN HTTP400
       ELSE IF ~named \/ ~ext_ok THEN HTTP400
       ELSE [raised |-> FALSE, status_code |-> 0, valid |-> TRUE]

\* validate_uploaded_file: the size, then the extension, then the check of
\* the file name for path traversal.
validate_uploaded_file(file, file_type) ==
    LET max_allowed == IF file_type = "pdf" THEN MAX_SIZE ELSE ImageMaxSize
        named == file.has_name /\ file.filename # <<>>
        ext_ok == IF file_type = "pdf"
                  THEN endswith(name_lower(file.filename), Chars(".pdf"))
                  ELSE \E k \in 1..Len(allowed_extensions) :
                          endswith(name_lower(file.filename), Chars(allowed_extensions[k]))
    IN IF file.size > max_allowed THEN HTTP400
       ELSE IF ~named \/ ~ext_ok THEN HTTP400
       ELSE IF \/ contains(file.filename, <<".", ".">>)
               \/ contains(file.filename, <<"/">>)
               \/ contains(file.filename, <<"\\">>) THEN HTTP400
       ELSE [raised |-> FALSE, status_code |-> 0, valid |-> TRUE]

UploadSizes == {0, ImageMaxSize, ImageMaxSize + 1, MAX_SIZE, MAX_SIZE + 1}
Uploads ==
    {[size |-> z, has_name |-> TRUE, filename |-> Spell(q)] :
        z \in UploadSizes, q \in SeqsUpTo(NameParts, MaxNameParts)}
    \cup {[size |-> z, has_name |-> FALSE, filename |-> <<>>] : z \in UploadSizes}

UploadInputs ==
    {[kind |-> "upload", file |-> u, file_type |-> t] : u \in Uploads, t \in {"pdf", "image"}}

ApplyValidateUpload ==
    /\ fn = "none"
    /\ arg.kind = "upload"
    /\ fn' = "validate_uploaded_file"
    /\ ret' = validate_uploaded_file(arg.file, arg.file_type)
    /\ UNCHANGED <<arg, relayVars, parseVars>>

PdfInputs == {[kind |-> "pdf", pdf |-> p] : p \in Pdfs}

ApplyValidatePdf ==
    /\ fn = "none"
    /\ arg.kind = "pdf"
    /\ fn' = "validate_pdf"
    /\ ret' = validate_pdf(arg.pdf)
    /\ UNCHANGED <<arg, relayVars, parseVars>>

\* ------------------------------------------- extract_citations_from_response
MaxDocPages == 2     \* most pages of a document
MaxMentions == 2     \* most numbers in a reply

SnippetCap == 500
ExcerptChars == 300
MinSentenceChars == 20

\* A page of the document, as re.split(r'[.!?]\s+', page_text) sees it: its
\* sentences, each with its length, its length after strip() and its number
\* of question keywords.  One long sentence; two sentences of which the
\* second holds a keyword; blanks only; one short sentence.
PageKinds ==
    { <<[chars |-> 600, stripped |-> 600, score |-> 0]>>,
      <<[chars |-> 30, stripped |-> 30, score |-> 0],
        [chars |-> 40, stripped |-> 40, score |-> 1]>>,
      <<[chars |-> 400, stripped |-> 0, score |-> 0]>>,
      <<[chars |-> 10, stripped |-> 10, score |-> 1]>> }

\* A number in the reply: after one of the page patterns ("page 5", "p. 5",
\* "p 5"), or the number 1 elsewhere in the text.
Mentions ==
    {[pat |-> "page", n |-> n] : n \in 0..(MaxDocPages + 1)}
    \cup {[pat |-> "none", n |-> 1]}

\* len(page_text): the sentences and the two characters between them.
RECURSIVE PageChars(_)
PageChars(sentences) ==
    IF sentences = <<>> THEN 0
    ELSE Head(sentences).chars + (IF Len(sentences) > 1 THEN 2 ELSE 0)
         + PageChars(Tail(sentences))

\* The loop over the sentences: the length of the best snippet so far, 0
\* when there is none.
RECURSIVE BestByScore(_, _, _)
BestByScore(sentences, best_score, best_snippet) ==
    IF sentences = <<>> THEN best_snippet
    ELSE LET sentence == Head(sentences) IN
         IF sentence.score > best_score /\ sentence.stripped > MinSentenceChars
         THEN BestByScore(Tail(sentences), sentence.score, sentence.stripped)
         ELSE BestByScore(Tail(sentences), best_score, best_snippet)

\* The first sentence of more than 20 characters, 0 when there is none.
RECURSIVE FirstMeaningful(_)
FirstMeaningful(sentences) ==
    IF sentences = <<>> THEN 0
    ELSE IF Head(sentences).stripped > MinSentenceChars THEN Head(sentences).stripped
    ELSE FirstMeaningful(Tail(sentences))

\* len(best_snippet) for a page; the last resort is page_text[:300].strip()
\* with "..." added when the page is longer.
best_snippet(sentences) ==
    IF BestByScore(sentences, 0, 0) # 0 THEN BestByScore(sentences, 0, 0)
    ELSE IF FirstMeaningful(sentences) # 0 THEN FirstMeaningful(sentences)
    ELSE (IF \A i \in 1..Len(sentences) : sentences[i].stripped = 0 THEN 0
          ELSE Min(PageChars(sentences), ExcerptChars))
         + (IF PageChars(sentences) > ExcerptChars THEN 3 ELSE 0)

\* sorted(found_pages)
RECURSIVE SortedPages(_)
SortedPages(S) ==
    IF S = {} THEN <<>>
    ELSE LET lo == CHOOSE x \in S : \A y \in S : x <= y
         IN <<lo>> \o SortedPages(S \ {lo})

\* pdf_pages.get(page_num, "")
PageOf(pdf_pages, page_num) ==
    IF page_num \in 1..Len(pdf_pages) THEN pdf_pages[page_num]
    ELSE <<[chars |-> 0, stripped |-> 0, score |-> 0]>>

Citations(found_pages, pdf_pages) ==
    LET pages == SortedPages(found_pages)
    IN [k \in 1..Len(pages) |->
          [page |-> pages[k],
           text |-> Min(best_snippet(PageOf(pdf_pages, pages[k])), SnippetCap)]]

\* extract_citations_from_response_NoRange: without the test of the page
\* number against len(pdf_pages).
extract_citations_from_response_NoRange(response_text, pdf_pages) ==
    Citations({response_text[i].n : i \in {j \in 1..Len(response_text) :
                     response_text[j].pat # "none"}}, pdf_pages)

\* extract_citations_from_response: the page numbers the patterns find in
\* the reply, kept when within the document; one citation per page found,
\* in ascending order, its text cut to 500 characters.  A citation is
\* its page and the length of its text.
extract_citations_from_response(response_text, pdf_pages) ==
    Citations({response_text[i].n : i \in {j \in 1..Len(response_text) :
                     /\ response_text[j].pat # "none"
                     /\ 1 <= response_text[j].n
                     /\ response_text[j].n <= Len(pdf_pages)}}, pdf_pages)

CitationInputs ==
    {[kind |-> "citations", response_text |-> r, pdf_pages |-> d] :
        r \in SeqsUpTo(Mentions, MaxMentions),
        d \in SeqsUpTo(PageKinds, MaxDocPages) \ {<<>>}}

ApplyCitations ==
    /\ fn = "none"
    /\ arg.kind = "citations"
    /\ fn' = "extract_citations_from_response"
    /\ ret' = extract_citations_from_response(arg.response_text, arg.pdf_pages)
    /\ UNCHANGED <<arg, relayVars, parseVars>>

\* ------------------------------------------------------------ extract_text
MaxRange == 2        \* most entries of a page_range

\* A call of extract_text: a document of total pages that fitz can open or
\* not, and page_range: None (given is FALSE) or a list of numbers.  The
\* text of a page is written as the number of the page it is.
ExtractCalls ==
    {[kind |-> "extract", total |-> n, readable |-> r, given |-> g, page_range |-> q] :
        n \in 0..MaxDocPages, r \in BOOLEAN, g \in BOOLEAN,
        q \in SeqsUpTo(0..(MaxDocPages + 1), MaxRange)} \ 
    {c \in [kind : {"extract"}, total : 0..MaxDocPages, readable : BOOLEAN,
             given : {FALSE}, page_range : SeqsUpTo(0..(MaxDocPages + 1), MaxRange)] :
        c.page_range # <<>>}

\* [p - 1 for p in page_range if 1 <= p <= total_pages]
RECURSIVE InRangeZeroIndexed(_, _)
InRangeZeroIndexed(page_range, total_pages) ==
    IF page_range = <<>> THEN <<>>
    ELSE (IF 1 <= Head(page_range) /\ Head(page_range) <= total_pages
          THEN <<Head(page_range) - 1>> ELSE <<>>)
         \o InRangeZeroIndexed(Tail(page_range), total_pages)

\* doc[page_num].get_text(): the pages are stored from index 0.
get_text(page_num) == page_num + 1

\* PDFProcessor.extract_text: "if page_range:" is false for None and for the
\* empty list.  text is the list that "\n\n".join puts together, page_texts
\* the dict keyed by page_num + 1.
extract_text(c) ==
    IF ~c.readable THEN [success |-> FALSE, text |-> <<>>, page_texts |-> <<>>,
                         total_pages |-> 0, pages_extracted |-> 0]
    ELSE LET pages_to_extract ==
                 IF c.given /\ c.page_range # <<>>
                 THEN InRangeZeroIndexed(c.page_range, c.total)
                 ELSE [i \in 1..c.total |-> i - 1]
         IN [success |-> TRUE,
             text |-> [i \in 1..Len(pages_to_extract) |-> get_text(pages_to_extract[i])],
             page_texts |-> [k \in {pages_to_extract[i] + 1 : i \in 1..Len(pages_to_extract)}
                               |-> get_text(k - 1)],
             total_pages |-> c.total,
             pages_extracted |-> Len(pages_to_extract)]

ApplyExtractText ==
    /\ fn = "none"
    /\ arg.kind = "extract"
    /\ fn' = "extract_text"
    /\ ret' = extract_text(arg)
    /\ UNCHANGED <<arg, relayVars, parseVars>>

FnInputs ==
    RiskInputs \cup ComplianceInputs \cup ConfInputs \cup UploadInputs \cup PdfInputs
    \cup CitationInputs \cup ExtractCalls

\* The other pure functions on their own.
InitFn ==
    /\ endpoint = "none"
    /\ nfiles = 0
    /\ pc = "idle"
    /\ vidx = 1
    /\ status = 0
    /\ rejected_by = "none"
    /\ disk = {}
    /\ created = {}
    /\ validated = {}
    /\ events = <<>>
    /\ full_response = <<>>
    /\ parse_count = 0
    /\ conf_count = 0
    /\ parsed = NoResult
    /\ closed = "no"
    /\ progress = NoProgress
    /\ gw = GwIdle
    /\ pin = NoInput
    /\ parser = "none"
    /\ result = NoResult
    /\ arg \in FnInputs
    /\ fn = "none"
    /\ ret = NoArg
    /\ pdf_seen = <<>>
    /\ extracted = {}

NextFn ==
    \/ ApplyRisks \/ ApplyCompliance \/ ApplyConfidence \/ ApplyValidateUpload
    \/ ApplyValidatePdf \/ ApplyCitations \/ ApplyExtractText

SpecFn == InitFn /\ [][NextFn]_vars

\* Requests and function calls side by side.
SpecAll == (Init \/ InitFn) /\ [][Next \/ NextFn]_vars

\* Every step of a request is taken eventually: the upstream delivers, fails
\* or ends, the caller asks for the next event or goes away.
FairSpec == Spec /\ WF_vars(Next)

\* ----------------------------------------------------------------- claims
Terminals == {i \in 1..Len(events) : events[i].type \in {"complete", "error"}}
IsText(e) == e.type = "text"
TextChunks == [i \in 1..Len(SelectSeq(events, IsText)) |-> SelectSeq(events, IsText)[i].chunk]
StreamOver == pc = "done" /\ status = 200 /\ endpoint # "file_test"
LastEvent == events[Len(events)]

\* C1: once a request is over (the handler has answered and the stream, if
\* one was opened, has ended or was closed), none of the temporary files the
\* request created exists on disk.
C1_TempFilesGone == pc = "done" => disk = {}

\* C2: the upload validation of every uploaded file is complete before any
\* temporary file is created; a request rejected by upload validation is
\* answered 400 and has created no file.
C2_ValidateBeforeWrite ==
    /\ created # {} => validated = 1..nfiles
    /\ rejected_by = "upload" => status = 400 /\ created = {}

\* C3: a stream holds at most one terminal event (complete or error), that
\* event is its last event, and a stream that ran to its end holds exactly
\* one.
C3_OneTerminalEventLast ==
    /\ Cardinality(Terminals) <= 1
    /\ \A i \in Terminals : i = Len(events)
    /\ StreamOver /\ closed = "no" => Cardinality(Terminals) = 1

\* C3 witness: a contract risk stream that ran to its end after the gateway
\* raised, with progress events flushed before the error event.
C3_Witness ==
    /\ StreamOver /\ closed = "no"
    /\ endpoint = "contract_hawk"
    /\ gw.pc = "raised"
    /\ Len(events) >= 4
    /\ LastEvent.type = "error"
    /\ events[Len(events) - 1].type = "progress"

\* C4: the chunks of the text events delivered to the caller are exactly the
\* fragments received from the gateway, in order, and every fragment received
\* has been delivered when the next one arrives (the fragment the endpoint
\* holds and has not yet yielded is the only one that may be missing).
C4_TextEventsAreFragments ==
    IF gw.pc = "yielded" /\ pc # "pull"
    THEN TextChunks = SubSeq(full_response, 1, Len(full_response) - 1)
    ELSE TextChunks = full_response

\* C5: one call of stream_completion starts at most max_retries upstream
\* attempts, it raises a retryable failure only after the last of them, and
\* every call ends: it returns or raises (or the caller went away).
C5_AtMostThreeAttempts ==
    /\ [](gw.op = "completion" =>
             /\ gw.attempts <= max_retries
             /\ gw.attempts = gw.attempt + 1
             /\ (gw.pc = "raised" /\ gw.err # "API error" => gw.attempts = max_retries))
    /\ (gw.op = "completion" ~> (gw.pc \in {"returned", "raised"} \/ pc = "done"))

\* C5 witness: a call that returned in its third attempt, after two failed
\* attempts and their sleeps.
C5_Witness ==
    gw.op = "completion" /\ gw.pc = "returned" /\ gw.attempts = max_retries /\ Len(gw.sleeps) = 2

\* C6: stream_image_analysis that raised for an upstream 429 or 5xx had made
\* max_retries attempts.
C6_VisionRetries ==
    gw.op = "vision" /\ gw.pc = "raised" /\ gw.err \in {"429", "5xx"}
        => gw.attempts = max_retries

\* C7: the parser and the estimator run at most once and only after the
\* gateway call returned; once the terminal event of an exhausted stream is
\* out, the estimator ran once and (where the endpoint has one) the parser
\* ran once; when the gateway raised, neither ran and the terminal event is
\* an error event.
C7_ParseAndScoreOnce ==
    /\ parse_count <= 1 /\ conf_count <= 1
    /\ parse_count + conf_count > 0 => gw.pc = "returned"
    /\ Terminals # {} /\ gw.pc = "returned" =>
          /\ conf_count = 1
          /\ (endpoint # "site_scribe" => parse_count = 1)
    /\ Terminals # {} /\ gw.pc = "raised" => LastEvent.type = "error"

\* C8: when the stream was exhausted and the parser did not recover JSON from
\* the reply, the terminal event is a complete event with success = false.
C8_ParseFailureNotFatal ==
    /\ endpoint \in {"contract_hawk", "submittal_scrubber", "lookahead_builder"}
    /\ Terminals # {}
    /\ gw.pc = "returned"
    /\ parse_count = 1
    /\ ~parsed.success
    => LastEvent.type = "complete" /\ LastEvent.success = FALSE

\* C9: a valid JSON object with the anchor list, embedded in a fenced block,
\* in prose or alone, parses with success = true and gives back its items
\* (the schedule parser: the object).
C9_RoundTrip ==
    parser # "none" /\ pin.shape \in {"fenced", "prose", "raw"} =>
        /\ result.success
        /\ IF parser = "schedule" THEN result.data = pin.payload
           ELSE result.items = ParsedItems(pin.payload)

\* Some part of the text is a JSON object / a JSON value.
HoldsJsonObject(s) ==
    \E i \in 1..Len(s) : \E j \in i..Len(s) : s[i] = "{" /\ json_loads_ok(SubSeq(s, i, j))
HoldsJson(s) ==
    \E i \in 1..Len(s) : \E j \in i..Len(s) : json_loads_ok(SubSeq(s, i, j))

\* sum is the first n characters of the text s.
IsPrefixOfChars(sum, s, n) ==
    /\ Len(sum) <= Len(s)
    /\ \A i \in 1..Len(sum) :
          /\ sum[i].tok = s[i]
          /\ sum[i].w <= Width(s[i])
          /\ (i < Len(sum) => sum[i].w = Width(s[i]))
    /\ LET total == IF sum = <<>> THEN 0
                     ELSE CharLen(SubSeq(s, 1, Len(sum) - 1)) + sum[Len(sum)].w
       IN total = Min(n, CharLen(s))

Degraded(r, s) ==
    /\ ~r.success
    /\ r.items = <<>>
    /\ r.summary.kind = "unable_to_parse"
    /\ IsPrefixOfChars(r.summary.text, s, SummaryChars)
    /\ r.has_raw /\ r.raw = s

C11_SeverityClampAsStated ==
    fn = "structure_risks" =>
        /\ \A i \in 1..Len(ret.items) : ret.items[i] \in 1..5
        /\ ret.success =>
              \A i \in 1..Len(arg.sevs) :
                 LET v == arg.sevs[i]
                     tenths == IF v.kind = "float" THEN v.n ELSE 10 * v.n
                 IN /\ tenths < 10 => ret.items[i] = 1
                    /\ tenths > 50 => ret.items[i] = 5
                    /\ (tenths >= 10 /\ tenths <= 50) => 10 * ret.items[i] = tenths

\* C11 amended: every risk item of the result has a severity in 1..5; a
\* whole-number severity below 1 becomes 1, above 5 becomes 5, in range it is
\* unchanged; a severity with a fraction is truncated toward zero and then
\* clamped; a severity that int() refuses leaves the result without items and
\* with success = false.
C11_SeverityClamp ==
    fn = "structure_risks" =>
        /\ \A i \in 1..Len(ret.items) : ret.items[i] \in 1..5
        /\ ret.success =>
              /\ Len(ret.items) = Len(arg.sevs)
              /\ \A i \in 1..Len(arg.sevs) :
                    LET v == arg.sevs[i] IN
                    /\ v.kind \notin {"str", "null"}
                    /\ (v.kind \in {"int", "numstr", "bool"} /\ v.n < 1) => ret.items[i] = 1
                    /\ (v.kind \in {"int", "numstr", "bool"} /\ v.n > 5) => ret.items[i] = 5
                    /\ (v.kind \in {"int", "numstr", "bool"} /\ v.n \in 1..5) => ret.items[i] = v.n
                    /\ v.kind = "float" =>
                          /\ (v.n < 10 => ret.items[i] = 1)
                          /\ (v.n >= 60 => ret.items[i] = 5)
                          /\ (v.n >= 10 /\ v.n < 60 =>
                                 10 * ret.items[i] <= v.n /\ v.n < 10 * ret.items[i] + 10)
        /\ (\E i \in 1..Len(arg.sevs) : arg.sevs[i].kind \in {"str", "null"})
              => ~ret.success /\ ret.items = <<>>

\* C11 witness: two items were clamped, one up from below 1 and one down from
\* above 5.
C11_Witness ==
    /\ fn = "structure_risks"
    /\ ret.success
    /\ Len(arg.sevs) = 2
    /\ arg.sevs[1].kind = "int" /\ arg.sevs[1].n < 1
    /\ arg.sevs[2].kind = "int" /\ arg.sevs[2].n > 5
    /\ ret.items = <<1, 5>>

\* C12: every compliance item of the result has a status among pass, warn and
\* fail; a status that is one of the three, in any case, is kept, and a
\* status string in which none of the words of the heuristics occurs becomes
\* warn.
C12_StatusClosedSet ==
    fn = "structure_compliance" =>
        /\ \A i \in 1..Len(ret.items) : ret.items[i] \in {"pass", "warn", "fail"}
        /\ ret.success =>
              /\ Len(ret.items) = Len(arg.sts)
              /\ \A i \in 1..Len(arg.sts) :
                    LET v == arg.sts[i] IN
                    /\ v.kind = "str"
                    /\ \A w \in {"pass", "warn", "fail"} :
                          v.atoms = <<w>> => ret.items[i] = w
                    /\ (\A j \in 1..Len(v.atoms) : v.atoms[j] \notin StatusWords)
                          => ret.items[i] = "warn"

\* C12 witness: a status in capitals was kept and one the heuristics do not
\* know became warn.
C12_Witness ==
    /\ fn = "structure_compliance"
    /\ ret.success
    /\ Len(arg.sts) = 2
    /\ arg.sts[1].atoms = <<"fail">> /\ arg.sts[1].upper
    /\ arg.sts[2].atoms = <<"x", "x">>
    /\ ret.items = <<"fail", "warn">>

\* The hedge entries of a list that occur in the text, and the occurrences of
\* hedge entries in the text.
EntriesPresent(list, s) == {k \in 1..Len(list) : EntryIn(list[k], s)}
Occurrences(list, s) ==
    {<<k, i>> \in (1..Len(list)) \X (1..Len(s)) : EntryIn(list[k], <<s[i]>>)}

\* C13 as stated: the level is High, Med or Low; an empty text or one of
\* fewer than 10 characters gives Low; otherwise, with the score the number
\* of occurrences of hedge words plus that of hedge phrases, score 0 and more
\* than 100 characters give High, a score up to 2 gives Med, the rest Low.
C13_ConfidenceAsStated ==
    fn = "calculate_confidence" =>
        LET score == Cardinality(Occurrences(uncertainty_words, arg.text))
                     + Cardinality(Occurrences(qualifier_phrases, arg.text))
        IN ret.level =
             IF TextLen(arg.text) < 10 THEN "Low"
             ELSE IF score = 0 /\ TextLen(arg.text) > 100 THEN "High"
             ELSE IF score <= 2 THEN "Med"
             ELSE "Low"

\* C13 amended: the level is High, Med or Low; a text with fewer than 10
\* characters between its leading and trailing blanks gives Low; otherwise,
\* with the score the number of hedge words of the list that occur in the
\* text plus the number of hedge phrases of the list that occur (each entry
\* counted once), score 0 and more than 100 characters in all give High, a
\* score up to 2 gives Med, the rest Low.
C13_Confidence ==
    fn = "calculate_confidence" =>
        LET score == Cardinality(EntriesPresent(uncertainty_words, arg.text))
                     + Cardinality(EntriesPresent(qualifier_phrases, arg.text))
            inner == {i \in 1..Len(arg.text) :
                        /\ \E j \in 1..i : ~IsBlank(arg.text[j])
                        /\ \E j \in i..Len(arg.text) : ~IsBlank(arg.text[j])}
            innerLen == TextLen([k \in 1..Cardinality(inner) |->
                                   arg.text[k + (CHOOSE m \in inner : \A x \in inner : m <= x) - 1]])
        IN /\ ret.level \in {"High", "Med", "Low"}
           /\ ret.level =
                IF inner = {} \/ innerLen < 10 THEN "Low"
                ELSE IF score = 0 /\ TextLen(arg.text) > 100 THEN "High"
                ELSE IF score <= 2 THEN "Med"
                ELSE "Low"

\* C13 witness: a text of three different hedge entries, long enough, scored
\* Low.
C13_Witness ==
    /\ fn = "calculate_confidence"
    /\ arg.text = <<"might", "maybe", "probably">>
    /\ ret.level = "Low"

\* C14: validate_uploaded_file accepts an upload exactly when its size is at
\* most the limit of its type (25 MB pdf, 10 MB image), its name is present
\* and ends, in any case, with an extension allowed for the type, and its
\* name holds no "..", "/" or "\"; every other upload is rejected with a 400
\* and no result.
C14_UploadAccepted ==
    fn = "validate_uploaded_file" =>
        LET f == arg.file
            n == f.filename
            limit == IF arg.file_type = "pdf" THEN 25 * 1024 * 1024 ELSE 10 * 1024 * 1024
            exts == IF arg.file_type = "pdf" THEN {".pdf"}
                    ELSE {".jpg", ".jpeg", ".png", ".gif", ".webp"}
            tail(k) == [i \in 1..k |-> char_lower(n[Len(n) - k + i])]
            accepted ==
                /\ f.size <= limit
                /\ f.has_name
                /\ \E e \in exts : Len(Chars(e)) <= Len(n) /\ tail(Len(Chars(e))) = Chars(e)
                /\ \A i \in 1..Len(n) : n[i] \notin {"/", "\\"}
                /\ \A i \in 1..(Len(n) - 1) : ~(n[i] = "." /\ n[i + 1] = ".")
        IN IF accepted THEN ~ret.raised /\ ret.valid
           ELSE ret.raised /\ ret.status_code = 400 /\ ~ret.valid

\* C14 witness: an image within the size limit and with an allowed extension
\* in capitals was rejected for the ".." in its name.
C14_Witness ==
    /\ fn = "validate_uploaded_file"
    /\ arg.file_type = "image"
    /\ arg.file.size = ImageMaxSize
    /\ arg.file.filename = Spell(<<"..", ".WEBP">>)
    /\ ret.raised /\ ret.status_code = 400

\* C15: validate_pdf answers valid = false for every PDF over MAX_SIZE or
\* over MAX_PAGES; in every endpoint extract_text is called only on files
\* validate_pdf found valid, and a failed validation ends the request at
\* once with a 400, before any extraction and before any stream.
C15_ValidateBeforeExtract ==
    /\ fn = "validate_pdf" =>
          (arg.pdf.size > 25 * 1024 * 1024 \/ arg.pdf.pages > 100 => ~ret.valid)
    /\ \A i \in 1..Len(pdf_seen) :
          (pdf_seen[i].pdf.size > 25 * 1024 * 1024 \/ pdf_seen[i].pdf.pages > 100)
             => ~pdf_seen[i].valid
    /\ \A i \in extracted :
          /\ i <= Len(pdf_seen)
          /\ pdf_seen[i].valid
          /\ pdf_seen[i].pdf.size <= 25 * 1024 * 1024
          /\ pdf_seen[i].pdf.pages <= 100
    /\ extracted # {} => Len(pdf_seen) = nfiles
    /\ (\E i \in 1..Len(pdf_seen) : ~pdf_seen[i].valid) =>
          /\ pc = "done" /\ status = 400 /\ rejected_by = "pdf"
          /\ extracted = {}
          /\ events = <<>>

\* C15 witness: the second PDF of a submittal request has too many pages;
\* the request ended with a 400 and nothing was extracted.
C15_Witness ==
    /\ endpoint = "submittal_scrubber"
    /\ Len(pdf_seen) = 2
    /\ pdf_seen[1].valid
    /\ pdf_seen[2].pdf.pages > MAX_PAGES /\ pdf_seen[2].pdf.readable
    /\ ~pdf_seen[2].valid
    /\ status = 400
    /\ extracted = {}

\* C16: the images of an upstream vision call all have a base64 text of at
\* most 5,242,880 bytes; when encode_image meets an image it cannot bring
\* under that size it raises the size-exceeded error and the upstream call
\* of the request is never made.
C16_NoOversizeImageUpstream ==
    gw.op = "vision" =>
        /\ gw.attempts >= 1 =>
              /\ gw.b64_max <= 5242880
              /\ gw.oversize = 0
              /\ gw.encoded = nfiles
        /\ gw.oversize # 0 =>
              /\ gw.oversize > 5242880
              /\ gw.pc = "raised" /\ gw.err = "size_exceeded"
              /\ gw.attempts = 0 /\ gw.nfrags = 0
        /\ gw.b64_max <= 5242880

\* C16 witness: the second image of a schedule request was refused for its
\* encoded size after the first had been encoded, and the request ended with
\* an error event.
C16_Witness ==
    /\ gw.op = "vision"
    /\ gw.encoded = 1 /\ gw.b64_max > 0
    /\ gw.oversize > B64Ceiling
    /\ gw.attempts = 0
    /\ pc = "done"
    /\ events # <<>> /\ LastEvent.type = "error"

\* C17: the fragments delivered to the caller of stream_completion, and the
\* reply accumulated from them, are fragments of the attempt in progress (in
\* the end: of the attempt that succeeded); what an attempt yielded before
\* it failed is not among them.
C17_FailedAttemptDiscarded ==
    gw.op = "completion" =>
        /\ Len(full_response) <= gw.cur
        /\ Len(TextChunks) <= gw.cur

\* C18: when attempt k (0 or 1) of stream_completion failed with a 429 or a
\* 5xx and the call went on, the wait before the next attempt was
\* base_delay * 2^k seconds (1 s, then 2 s), whatever failed before, and no
\* wait is longer than 60 s.
C18_BackoffSchedule ==
    gw.op = "completion" =>
        /\ \A i \in 1..Len(gw.sleeps) : gw.sleeps[i] <= 60
        /\ (gw.pc # "raised" /\ gw.last_kind \in {"429", "5xx"}) =>
              gw.sleeps[Len(gw.sleeps)] = 1 * Pow2(Len(gw.sleeps) - 1)

\* C19: an attempt of stream_completion that fails with a 4xx other than 429
\* makes the call raise in that step, without a sleep and without another
\* attempt, and the call stays raised.
C19_ClientErrorAborts ==
    /\ [][(gw'.last_kind = "4xx" /\ gw.last_kind # "4xx" /\ gw.op = "completion") =>
             /\ gw'.pc = "raised" /\ gw'.err = "API error"
             /\ gw'.sleeps = gw.sleeps
             /\ gw'.attempts = gw.attempts]_vars
    /\ [](gw.op = "completion" /\ gw.last_kind = "4xx" => gw.pc = "raised")

\* C19 witness: the first attempt failed with a 4xx; the call raised with two
\* attempts left and the endpoint sent the error event.
C19_Witness ==
    /\ gw.op = "completion"
    /\ gw.last_kind = "4xx"
    /\ gw.pc = "raised"
    /\ gw.attempts = 1 /\ gw.sleeps = <<>>
    /\ events # <<>> /\ LastEvent.type = "error"

\* The candidate texts of the steps of a parser, in the order of the code:
\* the fenced block, the anchor match, the brace pair, the whole reply.
StepCandidates(which, s) ==
    LET brace_start == FirstIdx(s, "{", 1)
        pair == IF brace_start = 0 \/ BraceScan(s, brace_start, 0) = 0 THEN <<>>
                ELSE SubSeq(s, brace_start, BraceScan(s, brace_start, 0))
    IN ({FencedMatch(s), s}
        \cup (IF which = "risk" THEN {RiskAnchorMatch(s)} ELSE {})
        \cup (IF which = "compliance" THEN {ComplianceAnchorMatch(s), pair} ELSE {})
        \cup (IF which = "schedule" THEN {pair} ELSE {})) \ {<<>>}

\* C20: the parser falls through the steps: it reports a JSON parse failure
\* only when the candidate of every step fails to parse, and a reply with an
\* unparsable fenced block or anchor match followed by a valid JSON object
\* yields success = true.
C20_FallThrough ==
    parser # "none" =>
        /\ (~result.success
              /\ result.summary.kind \in {"unable_to_parse", "json_parsing_error"})
             => \A c \in StepCandidates(parser, pin.text) : ~json_loads_ok(c)
        /\ pin.shape \in {"bad_fence_then_object", "bad_anchor_then_object"}
             => result.success

\* C21: a status string outside pass, warn and fail in which "partial" or
\* "unclear" occurs is normalised to warn, whatever else occurs in it.
C21_PartialUnclearWarn ==
    (fn = "structure_compliance" /\ ret.success) =>
        \A i \in 1..Len(arg.sts) :
            LET lowered == str_lower(arg.sts[i]) IN
            (/\ lowered \notin {<<"pass">>, <<"warn">>, <<"fail">>}
             /\ (InStatus("partial", lowered) \/ InStatus("unclear", lowered)))
            => ret.items[i] = "warn"

\* The events that came from the progress queue: the progress events of the
\* stages of progress_updates after the two that open the stream.
QueueEmitted ==
    {i \in 3..Len(events) :
        /\ events[i].type = "progress"
        /\ \E k \in 1..Len(progress_updates) : events[i].stage = progress_updates[k].stage_idx}

\* C22: in the contract risk stream the progress task is cancelled in the
\* step that follows the end of the gateway call, no update is queued once
\* the gateway call has returned or raised, every update queued is emitted
\* before the terminal event, and no progress event follows the terminal event.
C22_ProgressFlushedBeforeTerminal ==
    /\ [][(endpoint = "contract_hawk" /\ gw.pc \in {"returned", "raised"})
            => /\ progress'.queued_at = progress.queued_at
               /\ Len(progress'.queue) <= Len(progress.queue)
               /\ progress.task = "running" => progress'.task = "cancelled"]_vars
    /\ [](endpoint = "contract_hawk" =>
            /\ progress.streaming_complete => progress.task # "running"
            /\ Terminals # {} =>
                  /\ progress.streaming_complete
                  /\ progress.queue = <<>>
                  /\ Cardinality(QueueEmitted) = Len(progress.queued_at)
                  /\ {events[i].stage : i \in QueueEmitted}
                        = {progress_updates[k].stage_idx : k \in 1..Len(progress.queued_at)}
                  /\ \A i \in QueueEmitted : \A t \in Terminals : i < t
                  /\ \A t \in Terminals : \A j \in (t + 1)..Len(events) :
                        events[j].type # "progress")

\* C22 witness: the gateway call failed while two updates were queued; both
\* were emitted by the finally, after the last text event, before the error
\* event.
C22_Witness ==
    /\ endpoint = "contract_hawk"
    /\ gw.pc = "raised"
    /\ progress.task = "cancelled"
    /\ LastEvent.type = "error"
    /\ Len(events) >= 5
    /\ events[Len(events) - 1] = ProgressEvent(3)
    /\ events[Len(events) - 2] = ProgressEvent(2)
    /\ events[Len(events) - 3].type = "text"

\* C23: when the caller closes the contract risk stream at a yield after the
\* progress task was started, the task is cancelled and the generator ends
\* without raising, whether or not updates are queued at that moment.
C23_DisconnectCancelsCleanly ==
    (endpoint = "contract_hawk" /\ closed # "no" /\ progress.task # "none") =>
        /\ progress.task # "running"
        /\ closed = "clean"

\* C24: while the generator of the contract risk stream is inside the
\* gateway call, waiting for the next fragment or sleeping before a retry,
\* its progress task can take its next step.
C24_GatewayCallDoesNotStall ==
    (/\ endpoint = "contract_hawk"
     /\ pc = "pull" /\ gw.pc = "running"
     /\ progress.task = "running")
    => ENABLED ProgressTick

\* C25: the k-th progress update is queued at the offset its entry of
\* progress_updates names (1.5 s, 3 s, 5 s, 7 s), counted from the start of
\* the progress task.
C25_ProgressSchedule ==
    endpoint = "contract_hawk" =>
        \A k \in 1..Len(progress.queued_at) :
            progress.queued_at[k] = progress_updates[k].delay

\* C26: the citations hold at most one citation per page: every page cited
\* is mentioned in the reply after a page pattern and lies between 1 and the
\* number of pages, the pages are in strictly ascending order, every page so
\* mentioned within the document is cited, and no text is longer than 500
\* characters.
C26_OneCitationPerPage ==
    fn = "extract_citations_from_response" =>
        /\ \A k \in 1..Len(ret) :
              /\ ret[k].page \in 1..Len(arg.pdf_pages)
              /\ \E i \in 1..Len(arg.response_text) :
                    /\ arg.response_text[i].pat # "none"
                    /\ arg.response_text[i].n = ret[k].page
              /\ ret[k].text <= 500
              /\ k > 1 => ret[k - 1].page < ret[k].page
        /\ \A i \in 1..Len(arg.response_text) :
              (/\ arg.response_text[i].pat # "none"
               /\ arg.response_text[i].n \in 1..Len(arg.pdf_pages))
              => \E k \in 1..Len(ret) : ret[k].page = arg.response_text[i].n

\* C26 witness: a reply that names page 2 and then page 1 of a document of
\* two pages, the first a single sentence of 600 characters: two citations,
\* page 1 first, its text cut to 500 characters.
C26_Witness ==
    /\ fn = "extract_citations_from_response"
    /\ Len(arg.pdf_pages) = 2
    /\ arg.response_text = <<[pat |-> "page", n |-> 2], [pat |-> "page", n |-> 1]>>
    /\ arg.pdf_pages[1][1].stripped = 600
    /\ Len(ret) = 2
    /\ ret[1].page = 1 /\ ret[1].text = 500 /\ ret[2].page = 2

\* The page numbers of a page_range that the document has.
Selected(c) == {c.page_range[i] : i \in {j \in 1..Len(c.page_range) :
                                          c.page_range[j] \in 1..c.total}}

\* C27: for every page_range list extract_text succeeds, the keys of
\* page_texts are exactly the numbers of the list between 1 and total_pages,
\* each key holds the text of that page, the full text is built from those
\* pages only, and total_pages is the page count of the document; without a
\* page_range every page is selected.
C27_PageRangeLenient ==
    (fn = "extract_text" /\ arg.readable) =>
        /\ ret.success
        /\ ret.total_pages = arg.total
        /\ DOMAIN ret.page_texts = (IF arg.given THEN Selected(arg) ELSE 1..arg.total)
        /\ \A k \in DOMAIN ret.page_texts : ret.page_texts[k] = k
        /\ {ret.text[i] : i \in 1..Len(ret.text)} = DOMAIN ret.page_texts

\* C28: after every call of encode_image, whether it returned or raised, no
\* 'compressed_' file that the call created exists any more.
C28_CompressionTempsRemoved ==
    gw.op = "vision" => gw.temps_left = 0

\* C29: in a stream that ends with a complete event, the chunks of the text
\* events delivered, in order, are the accumulated reply that was parsed and
\* scored for that event.
C29_TextEventsAreTheReply ==
    (events # <<>> /\ LastEvent.type = "complete") => TextChunks = full_response

\* C30: when the reply of the contract risk model parses to an object that
\* has the member overall_risk_level, the complete event carries the value
\* of that member in overall_risk_level.
C30_OverallRiskLevelCarried ==
    (/\ parser = "risk"
     /\ result.success
     /\ HasKey(risk_json_str(pin.text), "L"))
    => risk_complete_event(result).overall_risk_level
          = DictGet(risk_json_str(pin.text), "L")

=============================================================================
